---------------------------- MODULE Spec2Model ----------------------------
(***************************************************************************)
(* State-machine model of the ai-info backend (lian4187/ai-info):          *)
(* LLM provider configs, feed fetch and ingest, article summarization and  *)
(* digest generation.  Tables of the relational store are sets of rows     *)
(* (or functions keyed by primary key); every request handler is one       *)
(* action; the loop of fetch_all_active_feeds advances one feed per step.  *)
(***************************************************************************)
EXTENDS Integers, Sequences, FiniteSets, TLC

VARIABLES
    configs,    \* table llm_provider_configs: set of rows
    feeds,      \* table rss_feeds: function feed id -> row
    articles,   \* table articles: set of rows
    summaries,  \* table summaries: set of rows
    digests,    \* table digest_reports: set of rows
    categories, \* table feed_categories: set of rows
    tasks,      \* table scheduled_tasks: set of rows
    jobs,       \* the jobs of the APScheduler instance: set of jobs
    now,        \* the UTC clock read by _utcnow()
    run,        \* position of a loop, of a request in flight or of the process start
    calls,      \* provider.chat invocations made so far (history)
    last        \* the request handled last, with its response

vars == <<configs, feeds, articles, summaries, digests, categories, tasks, jobs, now,
          run, calls, last>>

----------------------------------------------------------------------------
(* Bounds of the model *)

MaxConfigs == 3     \* provider configs created (highest id)
MaxClock == 4       \* the clock stops here: MaxClock - 1 feed requests per behaviour
MaxCalls == 3       \* provider invocations per behaviour
MaxBatch == 2       \* article ids in one batch request

----------------------------------------------------------------------------
(* Values *)

\* SQL NULL / Python None of a nullable string column
NULL == "<null>"

\* last_fetched_at IS NULL: the feed was never fetched (the clock starts at 1)
Never == 0

\* An INTEGER PRIMARY KEY of the SQLite store: one more than the highest id
NextId(rows) ==
    LET ids == {r.id : r \in rows} \cup {0}
    IN  1 + (CHOOSE m \in ids : \A i \in ids : i <= m)

Idle == [pc |-> "idle"]

----------------------------------------------------------------------------
(* Characters and words *)

Ch(s, i) == SubSeq(s, i, i)

\* The characters \s matches and str.strip() removes
IsSpace(c) == c \in {" ", "\t", "\n", "\r"}

\* The digits \d matches
IsDigit(c) == c \in {"0", "1", "2", "3", "4", "5", "6", "7", "8", "9"}

\* The bullet markers of [-*•] (the ASCII ones)
IsMarker(c) == c \in {"-", "*"}

\* Index of the first character at or after i that is no whitespace
RECURSIVE SkipSpace(_, _)
SkipSpace(s, i) ==
    IF i <= Len(s) /\ IsSpace(Ch(s, i)) THEN SkipSpace(s, i + 1) ELSE i

\* Index of the first character at or after i that is no digit
RECURSIVE SkipDigits(_, _)
SkipDigits(s, i) ==
    IF i <= Len(s) /\ IsDigit(Ch(s, i)) THEN SkipDigits(s, i + 1) ELSE i

\* Index of the first whitespace character at or after i
RECURSIVE SkipWord(_, _)
SkipWord(s, i) ==
    IF i <= Len(s) /\ ~IsSpace(Ch(s, i)) THEN SkipWord(s, i + 1) ELSE i

\* str.split() from index i on
RECURSIVE SplitWords(_, _)
SplitWords(s, i) ==
    LET a == SkipSpace(s, i)
    IN  IF a > Len(s) THEN << >>
        ELSE <<SubSeq(s, a, SkipWord(s, a) - 1)>> \o SplitWords(s, SkipWord(s, a))

DigitValue(c) ==
    CASE c = "0" -> 0 [] c = "1" -> 1 [] c = "2" -> 2 [] c = "3" -> 3 [] c = "4" -> 4
      [] c = "5" -> 5 [] c = "6" -> 6 [] c = "7" -> 7 [] c = "8" -> 8 [] c = "9" -> 9

\* int(s) of a digit string
RECURSIVE ToNat(_)
ToNat(s) ==
    IF s = "" THEN 0
    ELSE 10 * ToNat(SubSeq(s, 1, Len(s) - 1)) + DigitValue(Ch(s, Len(s)))

IsNumber(s) == s # "" /\ SkipDigits(s, 1) > Len(s)

----------------------------------------------------------------------------
(* The scheduler: services/scheduler_service.py *)

\* SEED_TASKS
SEED_TASKS ==
    << [task_type |-> "fetch_feeds",    cron_expression |-> "0 */2 * * *"],
       [task_type |-> "daily_digest",   cron_expression |-> "0 22 * * *"],
       [task_type |-> "weekly_digest",  cron_expression |-> "0 10 * * 1"],
       [task_type |-> "monthly_digest", cron_expression |-> "0 10 1 * *"] >>

\* The keys of TASK_HANDLERS
TASK_HANDLERS == {"fetch_feeds", "daily_digest", "weekly_digest", "monthly_digest"}

\* The value ranges of the fields minute, hour, day, month, day_of_week
CronRanges == << <<0, 59>>, <<0, 23>>, <<1, 31>>, <<1, 12>>, <<0, 6>> >>

\* Does CronTrigger accept the expression of one field: "*", "*/n" with a
\* step inside the range, or a number inside the range (the forms used here)
FieldAccepted(word, range) ==
    \/ word = "*"
    \/ /\ Len(word) > 2
       /\ SubSeq(word, 1, 2) = "*/"
       /\ IsNumber(SubSeq(word, 3, Len(word)))
       /\ ToNat(SubSeq(word, 3, Len(word))) \in 1..(range[2] - range[1])
    \/ /\ IsNumber(word)
       /\ ToNat(word) \in range[1]..range[2]

\* parts = cron_expression.split(); CronTrigger(minute=parts[0], ...,
\* day_of_week=parts[4]): the trigger, or the exception raised
CronTrigger(cron_expression) ==
    LET parts == SplitWords(cron_expression, 1)
    IN  IF Len(parts) < 5 THEN [raised |-> "IndexError", fields |-> << >>]
        ELSE IF \E k \in 1..5 : ~FieldAccepted(parts[k], CronRanges[k])
          THEN [raised |-> "ValueError", fields |-> << >>]
        ELSE [raised |-> "", fields |-> SubSeq(parts, 1, 5)]

job_id(task_type) == "task_" \o task_type

\* scheduler.add_job(handler, trigger=trigger, id=job_id, replace_existing=True)
add_job(js, task_type, trigger) ==
    {j \in js : j.id # job_id(task_type)}
      \cup {[id |-> job_id(task_type), handler |-> task_type, trigger |-> trigger.fields]}

\* reschedule_task: the jobs afterwards and the exception raised, if any
reschedule_task(js, task_type, cron_expression, is_enabled) ==
    LET removed == {j \in js : j.id # job_id(task_type)}
        trigger == CronTrigger(cron_expression)
    IN  IF is_enabled /\ task_type \in TASK_HANDLERS
          THEN IF trigger.raised # ""
                 THEN [jobs |-> removed, raised |-> trigger.raised]
                 ELSE [jobs |-> add_job(removed, task_type, trigger), raised |-> ""]
          ELSE [jobs |-> removed, raised |-> ""]

\* seed_default_tasks: a row for every seed type that has none
RECURSIVE SeedFrom(_, _)
SeedFrom(rows, k) ==
    IF k > Len(SEED_TASKS) THEN rows
    ELSE IF \E t \in rows : t.task_type = SEED_TASKS[k].task_type
      THEN SeedFrom(rows, k + 1)
    ELSE SeedFrom(rows \cup {[id |-> NextId(rows),
                              task_type |-> SEED_TASKS[k].task_type,
                              cron_expression |-> SEED_TASKS[k].cron_expression,
                              is_enabled |-> TRUE]},
                  k + 1)

seed_default_tasks(rows) == SeedFrom(rows, 1)

\* The loop of load_and_schedule_tasks over the enabled tasks: a task whose
\* trigger cannot be built is logged and skipped
RECURSIVE ScheduleAll(_, _)
ScheduleAll(js, rows) ==
    IF rows = {} THEN js
    ELSE LET task == CHOOSE t \in rows : \A u \in rows : t.id <= u.id
             trigger == CronTrigger(task.cron_expression)
         IN  ScheduleAll(IF task.task_type \in TASK_HANDLERS /\ trigger.raised = ""
                           THEN add_job(js, task.task_type, trigger) ELSE js,
                         rows \ {task})

\* The jobs after load_and_schedule_tasks on the seeded table
JobsAtStart(rows) == ScheduleAll({}, {t \in rows : t.is_enabled})

\* The table of a fresh installation after the first start
SeededTasks == seed_default_tasks({})

----------------------------------------------------------------------------
(* LLM provider configs: routers/llm.py *)

ProviderTypes == {"openai", "gemini"}
ModelNames == {"m1", "m2"}
ConfigIds == 1..MaxConfigs

\* LLMProviderConfigCreate bodies
CreateBodies ==
    [provider_type : ProviderTypes, model_name : ModelNames, is_default : BOOLEAN]

\* LLMProviderConfigUpdate bodies after model_dump(exclude_none=True):
\* the domain of the record is the set of fields the request supplies
UpdateBodies ==
    { [is_default |-> TRUE], [is_default |-> FALSE], [model_name |-> "m2"],
      [model_name |-> "m1", is_default |-> TRUE] }

\* _get_config_or_404
ConfigById(id) == {c \in configs : c.id = id}

\* update(LLMProviderConfig).where(id != keep).values(is_default=False)
Demote(rows, keep) ==
    { IF c.id = keep THEN c ELSE [c EXCEPT !.is_default = FALSE] : c \in rows }

\* update(LLMProviderConfig).values(is_default=False)
DemoteAll(rows) == { [c EXCEPT !.is_default = FALSE] : c \in rows }

\* for field, value in updates.items(): setattr(config, field, value)
ApplyUpdates(c, updates) ==
    [f \in DOMAIN c |-> IF f \in DOMAIN updates THEN updates[f] ELSE c[f]]

\* create_provider inserting the new config without clearing the other defaults
CreatedConfigsKeepingDefaults(rows, body) ==
    rows \cup {[id |-> NextId(rows), provider_type |-> body.provider_type,
                model_name |-> body.model_name, is_default |-> body.is_default]}

\* rows after create_provider's statements
CreatedConfigs(rows, body) ==
    (IF body.is_default THEN DemoteAll(rows) ELSE rows)
        \cup {[id |-> NextId(rows), provider_type |-> body.provider_type,
               model_name |-> body.model_name, is_default |-> body.is_default]}

\* update_provider applying the fields without clearing the other defaults
UpdatedConfigsKeepingDefaults(rows, config_id, updates) ==
    { IF c.id = config_id THEN ApplyUpdates(c, updates) ELSE c : c \in rows }

\* rows after update_provider's statements on the config with id config_id
UpdatedConfigs(rows, config_id, updates) ==
    LET promote == "is_default" \in DOMAIN updates /\ updates.is_default
        demoted == IF promote THEN Demote(rows, config_id) ELSE rows
    IN  { IF c.id = config_id THEN ApplyUpdates(c, updates) ELSE c : c \in demoted }

\* rows after set_default_provider's statements
DefaultedConfigs(rows, config_id) ==
    { IF c.id = config_id THEN [c EXCEPT !.is_default = TRUE] ELSE c
        : c \in Demote(rows, config_id) }

\* (history) the ids of the default configs when the request arrives
PriorDefaults == {c.id : c \in {x \in configs : x.is_default}}

create_provider(body) ==
    /\ NextId(configs) <= MaxConfigs
    /\ configs' = CreatedConfigs(configs, body)
    /\ last' = [op |-> "create_provider", prior |-> PriorDefaults,
                          config_id |-> NextId(configs),
                is_default |-> body.is_default, status |-> 201]
    /\ UNCHANGED <<tasks, jobs, categories, feeds, articles, summaries, digests, now, run, calls>>

update_provider(config_id, updates) ==
    /\ IF ConfigById(config_id) = {}
         THEN /\ last' = [op |-> "update_provider", prior |-> PriorDefaults,
                          config_id |-> config_id,
                          is_default |-> FALSE, status |-> 404]
              /\ UNCHANGED configs
         ELSE /\ configs' = UpdatedConfigs(configs, config_id, updates)
              /\ last' = [op |-> "update_provider", prior |-> PriorDefaults,
                          config_id |-> config_id,
                          is_default |-> ("is_default" \in DOMAIN updates
                                            /\ updates.is_default),
                          status |-> 200]
    /\ UNCHANGED <<tasks, jobs, categories, feeds, articles, summaries, digests, now, run, calls>>

delete_provider(config_id) ==
    /\ IF ConfigById(config_id) = {}
         THEN /\ last' = [op |-> "delete_provider", prior |-> PriorDefaults,
                          config_id |-> config_id,
                          is_default |-> FALSE, status |-> 404]
              /\ UNCHANGED configs
         ELSE /\ configs' = configs \ ConfigById(config_id)
              /\ last' = [op |-> "delete_provider", prior |-> PriorDefaults,
                          config_id |-> config_id,
                          is_default |-> FALSE, status |-> 204]
    /\ UNCHANGED <<tasks, jobs, categories, feeds, articles, summaries, digests, now, run, calls>>

set_default_provider(config_id) ==
    /\ IF ConfigById(config_id) = {}
         THEN /\ last' = [op |-> "set_default_provider", prior |-> PriorDefaults,
                          config_id |-> config_id,
                          is_default |-> FALSE, status |-> 404]
              /\ UNCHANGED configs
         ELSE /\ configs' = DefaultedConfigs(configs, config_id)
              /\ last' = [op |-> "set_default_provider", prior |-> PriorDefaults,
                          config_id |-> config_id,
                          is_default |-> TRUE, status |-> 200]
    /\ UNCHANGED <<tasks, jobs, categories, feeds, articles, summaries, digests, now, run, calls>>

NoRequest == [op |-> "none"]

InitLLM ==
    /\ configs = {}
    /\ feeds = << >>
    /\ articles = {}
    /\ summaries = {}
    /\ digests = {}
    /\ categories = {}
    /\ tasks = SeededTasks
    /\ jobs = JobsAtStart(SeededTasks)
    /\ now = 1
    /\ run = Idle
    /\ calls = << >>
    /\ last = NoRequest

NextLLM ==
    \/ \E body \in CreateBodies : create_provider(body)
    \/ \E id \in ConfigIds, updates \in UpdateBodies : update_provider(id, updates)
    \/ \E id \in ConfigIds : delete_provider(id)
    \/ \E id \in ConfigIds : set_default_provider(id)

SpecLLM == InitLLM /\ [][NextLLM]_vars

----------------------------------------------------------------------------
(* Feed fetch and ingest: services/feed_service.py *)

FeedIds == {1, 2}
MissingFeedIds == {3}

\* str.strip() on the blanks of a text
RECURSIVE LStrip(_)
LStrip(s) ==
    IF Len(s) > 0 /\ SubSeq(s, 1, 1) = " " THEN LStrip(SubSeq(s, 2, Len(s))) ELSE s

RECURSIVE RStrip(_)
RStrip(s) ==
    IF Len(s) > 0 /\ SubSeq(s, Len(s), Len(s)) = " "
      THEN RStrip(SubSeq(s, 1, Len(s) - 1)) ELSE s

Strip(s) == LStrip(RStrip(s))

\* Python truthiness of an optional string: neither None nor empty
Truthy(s) == s # NULL /\ s # ""

\* a or b
Or(a, b) == IF Truthy(a) THEN a ELSE b

\* Feed entries as feedparser yields them; "" is an absent or empty
\* attribute, published 0 an entry without a parsed date, content the value
\* of content[0]
EntryA == [id |-> "g1", link |-> "l0", title |-> "A", published |-> 1,
           author |-> "", content |-> "<p>a</p>", summary |-> "s"]
EntryB == [id |-> "g1", link |-> "l9", title |-> " B ", published |-> 2,
           author |-> " bob ", content |-> "", summary |-> "b<br/>"]
EntryC == [id |-> "", link |-> "l1", title |-> "", published |-> 0,
           author |-> "", content |-> "", summary |-> ""]

\* The documents a fetch can return: empty, one entry, the same guid twice,
\* a new guid before or after a guid seen earlier
Docs ==
    { << >>, <<EntryA>>, <<EntryA, EntryB>>, <<EntryC, EntryA>>, <<EntryB, EntryC>> }

\* parsed.feed of a document
ParsedFeeds ==
    { [title |-> "",   description |-> "",   subtitle |-> "",   link |-> ""],
      [title |-> "T1", description |-> "",   subtitle |-> "S1", link |-> "L1"] }

\* The link taken before the id
EntryGuidLinkFirst(entry, feed_url) ==
    IF entry.link # "" THEN entry.link
    ELSE IF entry.id # "" THEN entry.id
    ELSE feed_url \o "#" \o entry.title

\* _entry_guid
_entry_guid(entry, feed_url) ==
    IF entry.id # "" THEN entry.id
    ELSE IF entry.link # "" THEN entry.link
    ELSE feed_url \o "#" \o entry.title

\* _entry_published_at
_entry_published_at(entry) == entry.published

\* The first index from i on where s has a ">", 0 if there is none
RECURSIVE FindClose(_, _)
FindClose(s, i) ==
    IF i > Len(s) THEN 0
    ELSE IF SubSeq(s, i, i) = ">" THEN i ELSE FindClose(s, i + 1)

\* re.sub(r"<[^>]+>", "", html) from index i on
RECURSIVE StripTags(_, _)
StripTags(s, i) ==
    IF i > Len(s) THEN ""
    ELSE
      LET close == FindClose(s, i + 1)
      IN  IF SubSeq(s, i, i) = "<" /\ close > i + 1
            THEN StripTags(s, close + 1)
            ELSE SubSeq(s, i, i) \o StripTags(s, i + 1)

\* utils/text.py
html_to_text(html) == StripTags(html, 1)

truncate_text(text, max_length) ==
    IF Len(text) > max_length THEN SubSeq(text, 1, max_length) ELSE text

_MAX_CONTENT_LENGTH == 8000

\* _extract_entry_content: content[0] > summary > title
_extract_entry_content(entry) ==
    LET raw == IF entry.content # "" THEN entry.content
               ELSE IF entry.summary # "" THEN entry.summary
               ELSE entry.title
    IN  truncate_text(html_to_text(raw), _MAX_CONTENT_LENGTH)

\* The Article built from one entry (fetch_feed, loop body before the insert)
NewArticle(rows, feed, entry) ==
    [id |-> NextId(rows),
     feed_id |-> feed.id,
     guid |-> _entry_guid(entry, feed.url),
     title |-> (IF Strip(entry.title) # "" THEN Strip(entry.title) ELSE "(no title)"),
     url |-> Strip(IF entry.link # "" THEN entry.link ELSE feed.url),
     author |-> (IF Strip(entry.author) # "" THEN Strip(entry.author) ELSE NULL),
     content |-> _extract_entry_content(entry),
     published_at |-> _entry_published_at(entry),
     is_read |-> FALSE,
     is_starred |-> FALSE]

\* A unique constraint that covers the primary key too: no INSERT violates it
DuplicateWithId(rows, a) ==
    \E r \in rows : r.feed_id = a.feed_id /\ r.guid = a.guid /\ r.id = a.id

\* UniqueConstraint("feed_id", "guid"): would the INSERT raise IntegrityError
Duplicate(rows, a) ==
    \E r \in rows : r.feed_id = a.feed_id /\ r.guid = a.guid

\* An upsert: the entry's fields are merged into the row of its guid
InsertEntryMerging(acc, feed, entry) ==
    LET a == NewArticle(acc.articles, feed, entry)
        same == {r \in acc.articles : r.feed_id = a.feed_id /\ r.guid = a.guid}
    IN  IF same # {}
          THEN [acc EXCEPT !.articles =
                   (@ \ same) \cup {[a EXCEPT !.id = r.id] : r \in same}]
          ELSE [articles |-> acc.articles \cup {a}, count |-> acc.count + 1]

\* The insert of one entry inside its savepoint: the row is added and
\* counted, or the savepoint is rolled back and the entry skipped
InsertEntry(acc, feed, entry) ==
    LET a == NewArticle(acc.articles, feed, entry)
    IN  IF Duplicate(acc.articles, a)
          THEN acc
          ELSE [articles |-> acc.articles \cup {a}, count |-> acc.count + 1]

\* The loop without the savepoint: the first IntegrityError ends it
RECURSIVE IngestEntriesAborting(_, _, _)
IngestEntriesAborting(acc, feed, entries) ==
    IF entries = << >> THEN acc
    ELSE
      LET a == NewArticle(acc.articles, feed, Head(entries))
      IN  IF \E r \in acc.articles : r.feed_id = a.feed_id /\ r.guid = a.guid
            THEN acc
            ELSE IngestEntriesAborting(
                     [articles |-> acc.articles \cup {a}, count |-> acc.count + 1],
                     feed, Tail(entries))

\* for entry in parsed.entries: ...
RECURSIVE IngestEntries(_, _, _)
IngestEntries(acc, feed, entries) ==
    IF entries = << >> THEN acc
    ELSE IngestEntries(InsertEntry(acc, feed, Head(entries)), feed, Tail(entries))

\* The fetch time is not recorded
NotStamped(feed, t) == feed

\* feed.last_fetched_at = _utcnow()
Stamped(feed, t) == [feed EXCEPT !.last_fetched_at = t]

\* The tokens replaced by whatever the response carries, nothing included
StoredTokensOverwriting(feed, resp) ==
    [feed EXCEPT !.etag = IF Truthy(resp.etag) THEN resp.etag ELSE NULL,
                 !.last_modified =
                     IF Truthy(resp.last_modified) THEN resp.last_modified ELSE NULL]

\* The conditional-GET tokens after a 200 response
StoredTokens(feed, resp) ==
    [feed EXCEPT !.etag = IF Truthy(resp.etag) THEN resp.etag ELSE @,
                 !.last_modified =
                     IF Truthy(resp.last_modified) THEN resp.last_modified ELSE @]

\* The metadata with the title replaced whenever the feed document has one
StoredMetadataOverwriting(feed, parsed) ==
    [feed EXCEPT
        !.title = IF Truthy(parsed.title) THEN parsed.title ELSE @,
        !.description =
            IF Truthy(parsed.description) \/ Truthy(parsed.subtitle)
              THEN Or(parsed.description, parsed.subtitle) ELSE @,
        !.site_url = IF Truthy(parsed.link) THEN parsed.link ELSE @]

\* "Update feed metadata if changed"
StoredMetadata(feed, parsed) ==
    [feed EXCEPT
        !.title = IF Truthy(parsed.title) /\ feed.title = "" THEN parsed.title ELSE @,
        !.description =
            IF Truthy(parsed.description) \/ Truthy(parsed.subtitle)
              THEN Or(parsed.description, parsed.subtitle) ELSE @,
        !.site_url = IF Truthy(parsed.link) THEN parsed.link ELSE @]

\* The request headers _http_fetch sends for a feed
_http_fetch_headers(feed) ==
    [if_none_match |-> IF Truthy(feed.etag) THEN feed.etag ELSE NULL,
     if_modified_since |->
         IF Truthy(feed.last_modified) THEN feed.last_modified ELSE NULL]

\* The request sent a second time
HttpRequestsRetrying(fs, feed_id) ==
    IF feed_id \in DOMAIN fs
      THEN <<_http_fetch_headers(fs[feed_id]), _http_fetch_headers(fs[feed_id])>>
      ELSE << >>

\* The requests one fetch_feed sends: the single client.get of _http_fetch,
\* none for a feed that does not exist
HttpRequests(fs, feed_id) ==
    IF feed_id \in DOMAIN fs THEN <<_http_fetch_headers(fs[feed_id])>> ELSE << >>

\* A status string without the code
HttpStatusUnnamed(status_code) == "http_error"

\* f"http_{status_code}"
HttpStatusName(status_code) == "http_" \o ToString(status_code)

Raised(exc, feed_id) ==
    [raised |-> exc, feed_id |-> feed_id, new_articles |-> 0, status |-> ""]

Returned(feed_id, n, status) ==
    [raised |-> "", feed_id |-> feed_id, new_articles |-> n, status |-> status]

\* fetch_feed(db, feed_id) at clock t with HTTP outcome resp, on the tables as
\* the session sees them: the tables as the session sees them afterwards and
\* what it returns or raises.  Every return follows a db.commit(); a raise
\* leaves what was staged in the session's open transaction.  A response of
\* kind "broken" is a 200 response during whose ingest db.flush() raises an
\* error other than IntegrityError at the entry raises_at.
FetchFeed(fs, arts, feed_id, resp, t) ==
    IF feed_id \notin DOMAIN fs
      THEN [feeds |-> fs, articles |-> arts,
            result |-> Raised("ValueError", feed_id)]
    ELSE IF resp.kind = "error"
      THEN [feeds |-> fs, articles |-> arts,
            result |-> Raised("RuntimeError", feed_id)]
    ELSE
      LET stamped == Stamped(fs[feed_id], t)
      IN  IF resp.kind = "broken"
            THEN
              LET feed == StoredMetadata(StoredTokens(stamped, resp), resp.parsed)
                  done == IngestEntries([articles |-> arts, count |-> 0], feed,
                                        SubSeq(resp.entries, 1, resp.raises_at - 1))
              IN  [feeds |-> [fs EXCEPT ![feed_id] = feed],
                   articles |-> done.articles,
                   result |-> Raised("OperationalError", feed_id)]
          ELSE IF resp.status_code = 304
            THEN [feeds |-> [fs EXCEPT ![feed_id] = stamped], articles |-> arts,
                  result |-> Returned(feed_id, 0, "not_modified")]
          ELSE IF resp.status_code # 200
            THEN [feeds |-> [fs EXCEPT ![feed_id] = stamped], articles |-> arts,
                  result |-> Returned(feed_id, 0, HttpStatusName(resp.status_code))]
          ELSE
            LET feed == StoredMetadata(StoredTokens(stamped, resp), resp.parsed)
                done == IngestEntries([articles |-> arts, count |-> 0],
                                      feed, resp.entries)
            IN  [feeds |-> [fs EXCEPT ![feed_id] = feed],
                 articles |-> done.articles,
                 result |-> Returned(feed_id, done.count, "ok")]

\* HTTP outcomes of one GET
NetworkError ==
    [kind |-> "error", status_code |-> 0, etag |-> NULL, last_modified |-> NULL,
     parsed |-> CHOOSE p \in ParsedFeeds : p.title = "", entries |-> << >>]

Status(code) == [NetworkError EXCEPT !.kind = "http", !.status_code = code]

\* Outcomes used where the ingest of the document is what matters
IngestResponses ==
    {NetworkError, Status(304), Status(404)}
      \cup { [kind |-> "http", status_code |-> 200,
              etag |-> IF p.title = "" THEN NULL ELSE "e1",
              last_modified |-> IF p.title = "" THEN NULL ELSE "m1",
              parsed |-> p, entries |-> d] : p \in ParsedFeeds, d \in Docs }

\* POST /feeds/{feed_id}/fetch
fetch_feed(feed_id, resp) ==
    /\ run.pc = "idle"
    /\ now < MaxClock
    /\ LET out == FetchFeed(feeds, articles, feed_id, resp, now)
           committed == out.result.raised = ""
       IN  /\ feeds' = IF committed THEN out.feeds ELSE feeds
           /\ articles' = IF committed THEN out.articles ELSE articles
           /\ last' = [op |-> "fetch_feed", feed_id |-> feed_id, resp |-> resp,
                       requests |-> HttpRequests(feeds, feed_id),
                       result |-> out.result,
                       again |-> (last.op = "fetch_feed" /\ last.feed_id = feed_id
                                    /\ last.resp = resp),
                       http_status |-> CASE out.result.raised = "" -> 200
                                         [] out.result.raised = "ValueError" -> 404
                                         [] out.result.raised = "RuntimeError" -> 502
                                         [] OTHER -> 500]
    /\ now' = now + 1
    /\ UNCHANGED <<tasks, jobs, categories, configs, summaries, digests, run, calls>>

\* RSSFeedUpdate bodies after model_dump(exclude_unset=True)
FeedUpdateBodies ==
    { [is_active |-> FALSE], [is_active |-> TRUE], [title |-> ""] }

\* PUT /feeds/{feed_id}
update_feed(feed_id, data) ==
    /\ run.pc = "idle"
    /\ feed_id \in DOMAIN feeds
    /\ now < MaxClock
    /\ feeds' = [feeds EXCEPT ![feed_id] = ApplyUpdates(@, data)]
    /\ last' = [op |-> "update_feed", feed_id |-> feed_id]
    /\ now' = now + 1
    /\ UNCHANGED <<tasks, jobs, categories, configs, articles, summaries, digests, run, calls>>

\* select(RSSFeed).where(RSSFeed.is_active.is_(True))
ActiveFeeds(fs) == {f \in DOMAIN fs : fs[f].is_active}

\* The orders in which a SELECT without ORDER BY can return a set of rows
Orders(S) ==
    {q \in [1..Cardinality(S) -> S] : \A i, j \in 1..Cardinality(S) : q[i] = q[j] => i = j}

\* The dict fetch_all_active_feeds returns
Report(r) ==
    [feeds_processed |-> Len(r.feeds), new_articles |-> r.total_new, errors |-> r.errors]

\* The loop without the try: the first failing feed ends it
AfterFeedAborting(r, result) ==
    IF result.raised = ""
      THEN [r EXCEPT !.i = @ + 1, !.total_new = @ + result.new_articles]
      ELSE [r EXCEPT !.i = Len(r.feeds) + 1,
                     !.errors = Append(@, [feed_id |-> result.feed_id,
                                           error |-> result.raised])]

\* The loop variables of fetch_all_active_feeds after the iteration on one
\* feed: the try branch adds the new articles, the except branch one error
AfterFeed(r, result) ==
    [r EXCEPT
       !.i = @ + 1,
       !.total_new = IF result.raised = "" THEN @ + result.new_articles ELSE @,
       !.errors = IF result.raised = "" THEN @
                  ELSE Append(@, [feed_id |-> result.feed_id, error |-> result.raised])]

\* No HTTP request was made
NoFetch == [NetworkError EXCEPT !.kind = "none"]

\* fetch_all_active_feeds up to its loop: the active feeds are selected
fetch_all_start ==
    /\ run.pc = "idle"
    /\ now + Cardinality(ActiveFeeds(feeds)) <= MaxClock
    /\ \E q \in Orders(ActiveFeeds(feeds)) :
         LET r == [pc |-> "loop", feeds |-> q, i |-> 1, total_new |-> 0,
                   errors |-> << >>,
                   session |-> [feeds |-> feeds, articles |-> articles],
                   before |-> [feeds |-> feeds, articles |-> articles]]
         IN  /\ run' = IF q = << >> THEN Idle ELSE r
             /\ last' = [op |-> "fetch_all_active_feeds",
                         selected |-> ActiveFeeds(feeds),
                         inactive |-> DOMAIN feeds \ ActiveFeeds(feeds),
                         done |-> (q = << >>), feed_id |-> 0, resp |-> NoFetch,
                         outcomes |-> << >>, report |-> Report(r)]
    /\ UNCHANGED <<tasks, jobs, categories, configs, feeds, articles, summaries, digests, now, calls>>

\* One iteration of the loop of fetch_all_active_feeds; the iteration on the
\* last feed is followed by the return.  All iterations use the one session
\* of the run (run.session: the tables as it sees them): what a raising
\* fetch_feed staged stays in its transaction, no rollback follows, and the
\* db.commit() of a later iteration commits it
fetch_all_step(resp) ==
    /\ run.pc = "loop"
    /\ LET feed_id == run.feeds[run.i]
           out == FetchFeed(run.session.feeds, run.session.articles, feed_id,
                            resp, now)
           committed == out.result.raised = ""
           r == [AfterFeed(run, out.result) EXCEPT
                   !.session = [feeds |-> out.feeds, articles |-> out.articles]]
       IN  /\ feeds' = IF committed THEN out.feeds ELSE feeds
           /\ articles' = IF committed THEN out.articles ELSE articles
           /\ run' = IF r.i > Len(r.feeds) THEN Idle ELSE r
           /\ last' = [last EXCEPT !.done = (r.i > Len(r.feeds)),
                                   !.feed_id = feed_id, !.resp = resp,
                                   !.outcomes = Append(@, out.result),
                                   !.report = Report(r)]
    /\ now' = now + 1
    /\ UNCHANGED <<tasks, jobs, categories, configs, summaries, digests, calls>>

\* The rss_feeds rows after two feeds were subscribed with a title (create_feed)
InitFeeds ==
    [f \in FeedIds |->
        [id |-> f, url |-> "https://x/feed" \o ToString(f) \o ".xml",
         title |-> "T0", description |-> NULL, site_url |-> NULL,
         category_id |-> 0, is_active |-> TRUE, etag |-> NULL,
         last_modified |-> NULL, last_fetched_at |-> Never]]

InitFeed ==
    /\ configs = {}
    /\ feeds = InitFeeds
    /\ articles = {}
    /\ summaries = {}
    /\ digests = {}
    /\ categories = {}
    /\ tasks = SeededTasks
    /\ jobs = JobsAtStart(SeededTasks)
    /\ now = 1
    /\ run = Idle
    /\ calls = << >>
    /\ last = NoRequest

NextFeed ==
    \/ \E f \in FeedIds, resp \in IngestResponses : fetch_feed(f, resp)
    \/ \E f \in MissingFeedIds : fetch_feed(f, NetworkError)
    \/ \E f \in FeedIds, data \in FeedUpdateBodies : update_feed(f, data)
    \/ fetch_all_start
    \/ \E resp \in IngestResponses : fetch_all_step(resp)

SpecFeed == InitFeed /\ [][NextFeed]_vars

----------------------------------------------------------------------------
(* Summaries: services/summary_service.py *)

\* str.strip() with every whitespace character
RECURSIVE StripEnd(_)
StripEnd(s) ==
    IF Len(s) > 0 /\ IsSpace(Ch(s, Len(s)))
      THEN StripEnd(SubSeq(s, 1, Len(s) - 1)) ELSE s

StripText(s) == StripEnd(SubSeq(s, SkipSpace(s, 1), Len(s)))

\* str.splitlines() from index i on, the current line starting at index from
RECURSIVE SplitLines(_, _, _)
SplitLines(s, from, i) ==
    IF i > Len(s)
      THEN IF from > Len(s) THEN << >> ELSE <<SubSeq(s, from, Len(s))>>
    ELSE IF Ch(s, i) = "\r" /\ i < Len(s) /\ Ch(s, i + 1) = "\n"
      THEN <<SubSeq(s, from, i - 1)>> \o SplitLines(s, i + 2, i + 2)
    ELSE IF Ch(s, i) \in {"\n", "\r"}
      THEN <<SubSeq(s, from, i - 1)>> \o SplitLines(s, i + 1, i + 1)
    ELSE SplitLines(s, from, i + 1)

\* bullet_pattern.match(line): the length of the match of
\* ^\s*[-*•]\s+|^\s*\d+[.)]\s+ at the start of the line, 0 when there is none
BulletPrefix(line) ==
    LET m == SkipSpace(line, 1)
        d == SkipDigits(line, m)
    IN  IF m <= Len(line) /\ IsMarker(Ch(line, m))
             /\ m + 1 <= Len(line) /\ IsSpace(Ch(line, m + 1))
          THEN SkipSpace(line, m + 1) - 1
        ELSE IF d > m /\ d <= Len(line) /\ Ch(line, d) \in {".", ")"}
             /\ d + 1 <= Len(line) /\ IsSpace(Ch(line, d + 1))
          THEN SkipSpace(line, d + 1) - 1
        ELSE 0

\* The loop of _parse_llm_summary over the lines
RECURSIVE ScanLines(_, _)
ScanLines(acc, lines) ==
    IF lines = << >> THEN acc
    ELSE
      LET line == Head(lines)
          stripped == StripText(line)
          n == BulletPrefix(line)
          point == StripText(SubSeq(line, n + 1, Len(line)))
          next ==
            IF stripped = "" THEN acc
            ELSE IF n > 0
              THEN [acc EXCEPT !.in_bullets = TRUE,
                               !.key_points = IF point # "" THEN Append(@, point) ELSE @]
            ELSE IF ~acc.in_bullets
              THEN [acc EXCEPT !.summary_lines = Append(@, stripped)]
            ELSE acc
      IN  ScanLines(next, Tail(lines))

\* " ".join(parts)
RECURSIVE Join(_)
Join(parts) ==
    IF parts = << >> THEN ""
    ELSE IF Len(parts) = 1 THEN parts[1]
    ELSE parts[1] \o " " \o Join(Tail(parts))

\* _parse_llm_summary
_parse_llm_summary(raw) ==
    LET text == StripText(raw)
        acc == ScanLines([summary_lines |-> << >>, key_points |-> << >>,
                          in_bullets |-> FALSE],
                         SplitLines(text, 1, 1))
        summary_text == StripText(Join(acc.summary_lines))
    IN  [summary_text |-> IF summary_text = "" /\ acc.key_points = << >>
                            THEN text ELSE summary_text,
         key_points |-> acc.key_points]

\* llm_config_id = None: the parameter's default
NoConfigId == 0

\* get_llm_provider / _load_provider_meta: the config rows a request resolves to
ResolveConfig(rows, config_id) ==
    IF config_id # NoConfigId
      THEN {c \in rows : c.id = config_id}
      ELSE {c \in rows : c.is_default}

\* Outcomes of provider.chat: an LLMResponse, or an exception
ChatFailure == [ok |-> FALSE, content |-> "", total_tokens |-> 0]

ChatResponses ==
    { ChatFailure,
      [ok |-> TRUE, content |-> "This is great.\n- Point A\n- Point B", total_tokens |-> 7],
      [ok |-> TRUE, content |-> " * only\nafter", total_tokens |-> 5] }

\* What summarize_article returns (summary: the row) or raises
SummaryOutcome(cause, raised, row) ==
    [cause |-> cause, raised |-> raised, summary |-> row]

\* The Summary row inserted before the provider is called and filled in
\* afterwards: a failed call leaves the empty row behind
CallAndPersistEager(sums, article_id, c, resp) ==
    LET parsed == _parse_llm_summary(resp.content)
        row == [id |-> NextId(sums), article_id |-> article_id,
                llm_provider |-> c.provider_type, llm_model |-> c.model_name,
                summary_text |-> parsed.summary_text,
                key_points |-> parsed.key_points,
                token_usage |-> resp.total_tokens]
    IN  [summaries |-> sums \cup {row},
         invoked |-> <<[kind |-> "summary", about |-> article_id, ok |-> resp.ok]>>,
         outcome |-> IF resp.ok THEN SummaryOutcome("created", "", {row})
                     ELSE SummaryOutcome("provider_failed", "ProviderError", {})]

\* Steps 4 to 6 of summarize_article with the resolved config c: the provider
\* is called; the Summary row is built from its response and inserted
CallAndPersist(sums, article_id, c, resp) ==
    IF ~resp.ok
      THEN [summaries |-> sums,
            invoked |-> <<[kind |-> "summary", about |-> article_id, ok |-> FALSE]>>,
            outcome |-> SummaryOutcome("provider_failed", "ProviderError", {})]
      ELSE
        LET parsed == _parse_llm_summary(resp.content)
            row == [id |-> NextId(sums), article_id |-> article_id,
                    llm_provider |-> c.provider_type, llm_model |-> c.model_name,
                    summary_text |-> parsed.summary_text,
                    key_points |-> parsed.key_points,
                    token_usage |-> resp.total_tokens]
        IN  [summaries |-> sums \cup {row},
             invoked |-> <<[kind |-> "summary", about |-> article_id, ok |-> TRUE]>>,
             outcome |-> SummaryOutcome("created", "", {row})]

\* summarize_article without step 1, the look-up of an existing summary
SummarizeArticleAgain(arts, sums, cfgs, article_id, config_id, resp) ==
    IF {a \in arts : a.id = article_id} = {}
      THEN [summaries |-> sums, invoked |-> << >>,
            outcome |-> SummaryOutcome("article_missing", "ValueError", {})]
    ELSE IF ResolveConfig(cfgs, config_id) = {}
      THEN [summaries |-> sums, invoked |-> << >>,
            outcome |-> SummaryOutcome("no_config", "ValueError", {})]
    ELSE CallAndPersist(sums, article_id,
                        CHOOSE c \in ResolveConfig(cfgs, config_id) : TRUE, resp)

\* summarize_article(db, article_id, llm_config_id) when provider.chat, if it
\* is reached, has the outcome resp: the summaries table after it, the
\* provider invocations it made, and what it returns or raises
SummarizeArticle(arts, sums, cfgs, article_id, config_id, resp) ==
    LET existing == {s \in sums : s.article_id = article_id}
        article == {a \in arts : a.id = article_id}
        config == ResolveConfig(cfgs, config_id)
    IN  IF existing # {}
          THEN [summaries |-> sums, invoked |-> << >>,
                outcome |-> SummaryOutcome("existing", "", existing)]
        ELSE IF article = {}
          THEN [summaries |-> sums, invoked |-> << >>,
                outcome |-> SummaryOutcome("article_missing", "ValueError", {})]
        ELSE IF config = {}
          THEN [summaries |-> sums, invoked |-> << >>,
                outcome |-> SummaryOutcome("no_config", "ValueError", {})]
        ELSE CallAndPersist(sums, article_id, CHOOSE c \in config : TRUE, resp)

\* The HTTP status of the routers for what the service raised
HttpStatus(raised, success) ==
    CASE raised = "" -> success
      [] raised = "ValueError" -> 404
      [] OTHER -> 502

\* POST /summaries/article/{article_id}: the default provider config is used
summarize_article(article_id, resp) ==
    /\ run.pc = "idle"
    /\ Len(calls) < MaxCalls
    /\ LET out == SummarizeArticle(articles, summaries, configs, article_id,
                                   NoConfigId, resp)
       IN  /\ summaries' = out.summaries
           /\ calls' = calls \o out.invoked
           /\ last' = [op |-> "summarize_article", article_id |-> article_id,
                       status |-> HttpStatus(out.outcome.raised, 201),
                       outcome |-> out.outcome]
    /\ UNCHANGED <<tasks, jobs, categories, configs, feeds, articles, digests, now, run>>

\* One element of the list batch_summarize returns
BatchResult(article_id, outcome) ==
    IF outcome.raised = ""
      THEN [article_id |-> article_id, success |-> TRUE,
            summary_id |-> (CHOOSE r \in outcome.summary : TRUE).id, error |-> ""]
      ELSE [article_id |-> article_id, success |-> FALSE,
            summary_id |-> 0, error |-> outcome.raised]

\* The loop without the try: the first failing article ends it
AfterArticleAborting(r, outcome) ==
    [r EXCEPT !.i = IF outcome.raised = "" THEN @ + 1 ELSE Len(r.article_ids) + 1,
              !.results = Append(@, BatchResult(r.article_ids[r.i], outcome))]

\* The loop variables of batch_summarize after the iteration on one article
\* id: one result is appended, in the try branch or in the except branch
AfterArticle(r, outcome) ==
    [r EXCEPT !.i = @ + 1,
              !.results = Append(@, BatchResult(r.article_ids[r.i], outcome))]

\* POST /summaries/batch up to the loop of batch_summarize
batch_summarize_start(article_ids, config_id) ==
    /\ run.pc = "idle"
    /\ Len(calls) + Len(article_ids) <= MaxCalls
    /\ run' = IF article_ids = << >> THEN Idle
              ELSE [pc |-> "batch", article_ids |-> article_ids,
                    config_id |-> config_id, i |-> 1, results |-> << >>]
    /\ last' = [op |-> "batch_summarize", article_ids |-> article_ids,
                config_id |-> config_id, done |-> (article_ids = << >>),
                results |-> << >>, outcomes |-> << >>]
    /\ UNCHANGED <<tasks, jobs, categories, configs, feeds, articles, summaries, digests, now, calls>>

\* One iteration of the loop of batch_summarize; the iteration on the last
\* article id is followed by the return
batch_summarize_step(resp) ==
    /\ run.pc = "batch"
    /\ LET out == SummarizeArticle(articles, summaries, configs,
                                   run.article_ids[run.i], run.config_id, resp)
           r == AfterArticle(run, out.outcome)
       IN  /\ summaries' = out.summaries
           /\ calls' = calls \o out.invoked
           /\ run' = IF r.i > Len(r.article_ids) THEN Idle ELSE r
           /\ last' = [last EXCEPT !.done = (r.i > Len(r.article_ids)),
                                   !.results = r.results,
                                   !.outcomes = Append(@, out.outcome)]
    /\ UNCHANGED <<tasks, jobs, categories, configs, feeds, articles, digests, now>>

----------------------------------------------------------------------------
(* Digests: services/digest_service.py *)

\* The window with its end included
InWindowClosed(arts, start, end) ==
    {a \in arts : a.published_at # Never /\ a.published_at >= start
                    /\ a.published_at <= end}

\* select(Article).where(published_at >= start, published_at < end): a NULL
\* published_at satisfies no comparison
InWindow(arts, start, end) ==
    {a \in arts : a.published_at # Never /\ a.published_at >= start
                    /\ a.published_at < end}

\* The articles of the window, summarized or not
Unfiltered(arts, sums, start, end) == InWindow(arts, start, end)

\* summarized = [a for a in articles if a.summary is not None]
Summarized(arts, sums, start, end) ==
    {a \in InWindow(arts, start, end) : \E s \in sums : s.article_id = a.id}

\* A report for the period and window is reused when there is one
ExistingOrNewReport(reports, fields) ==
    LET same == {r \in reports : /\ r.period_type = fields.period_type
                                 /\ r.period_start = fields.period_start
                                 /\ r.period_end = fields.period_end}
    IN  IF same # {} THEN CHOOSE r \in same : TRUE
        ELSE [f \in DOMAIN fields \cup {"id"} |->
                IF f = "id" THEN NextId(reports) ELSE fields[f]]

\* DigestReport(...), db.add(report), commit, refresh: the row with its new id
NewReport(reports, fields) ==
    [f \in DOMAIN fields \cup {"id"} |->
        IF f = "id" THEN NextId(reports) ELSE fields[f]]

\* generate_digest(db, period_type, start, end, llm_config_id) when
\* provider.chat, if it is reached, has the outcome resp; covered: the ids of
\* the articles whose summaries are in the prompt
GenerateDigest(arts, sums, cfgs, reports, period_type, start, end, config_id, resp) ==
    LET summarized == Summarized(arts, sums, start, end)
        config == ResolveConfig(cfgs, config_id)
    IN  IF summarized = {}
          THEN [digests |-> reports, invoked |-> << >>,
                cause |-> "no_summarized_articles", raised |-> "ValueError",
                covered |-> {}, report |-> {}]
        ELSE IF config = {}
          THEN [digests |-> reports, invoked |-> << >>,
                cause |-> "no_config", raised |-> "ValueError",
                covered |-> {}, report |-> {}]
        ELSE IF ~resp.ok
          THEN [digests |-> reports,
                invoked |-> <<[kind |-> "digest", about |-> start, ok |-> FALSE]>>,
                cause |-> "provider_failed", raised |-> "ProviderError",
                covered |-> {a.id : a \in summarized}, report |-> {}]
        ELSE
          LET c == CHOOSE x \in config : TRUE
              row == NewReport(reports,
                         [period_type |-> period_type,
                          period_start |-> start, period_end |-> end,
                          content |-> resp.content,
                          article_count |-> Cardinality(summarized),
                          llm_provider |-> c.provider_type,
                          llm_model |-> c.model_name])
          IN  [digests |-> reports \cup {row},
               invoked |-> <<[kind |-> "digest", about |-> start, ok |-> TRUE]>>,
               cause |-> "created", raised |-> "",
               covered |-> {a.id : a \in summarized}, report |-> {row}]

\* POST /summaries/digests/generate with start_date and end_date given
generate_digest(period_type, start, end, config_id, resp) ==
    /\ run.pc = "idle"
    /\ Len(calls) < MaxCalls
    /\ LET out == GenerateDigest(articles, summaries, configs, digests,
                                 period_type, start, end, config_id, resp)
       IN  /\ digests' = out.digests
           /\ calls' = calls \o out.invoked
           /\ last' = [op |-> "generate_digest", period_type |-> period_type,
                       start |-> start, end |-> end,
                       status |-> HttpStatus(out.raised, 201),
                       cause |-> out.cause, covered |-> out.covered,
                       report |-> out.report]
    /\ UNCHANGED <<tasks, jobs, categories, configs, feeds, articles, summaries, now, run>>

\* A 200 response carrying the document doc
Ok200(doc) ==
    [kind |-> "http", status_code |-> 200, etag |-> "e1", last_modified |-> NULL,
     parsed |-> CHOOSE p \in ParsedFeeds : p.title # "", entries |-> doc]

\* The store after feed 1 and then feed 2 were fetched once
Ingested ==
    LET first == FetchFeed(InitFeeds, {}, 1, Ok200(<<EntryC, EntryA>>), 1)
    IN  FetchFeed(first.feeds, first.articles, 2, Ok200(<<EntryB>>), 2)

\* Provider config tables left by create_provider requests: none, two
\* configs without a default, a default and a second config
SumConfigTables ==
    LET a == [provider_type |-> "openai", model_name |-> "m1", is_default |-> FALSE]
        b == [provider_type |-> "gemini", model_name |-> "m2", is_default |-> FALSE]
        d == [provider_type |-> "openai", model_name |-> "m1", is_default |-> TRUE]
    IN  { {}, CreatedConfigs(CreatedConfigs({}, a), b),
          CreatedConfigs(CreatedConfigs({}, d), b) }

\* Request parameters: 9 names no article, 3 no provider config
SumArticleIds == {a.id : a \in Ingested.articles} \cup {9}
BatchArticleIds == {2, 9}
SumConfigIds == {NoConfigId, 2, 3}
BatchConfigIds == {NoConfigId, 2}
Batches == UNION { [1..n -> BatchArticleIds] : n \in 0..MaxBatch }
PeriodTypes == {"daily"}
Windows == { <<1, 2>>, <<2, 3>>, <<1, 3>>, <<3, 4>> }
DigestResponses ==
    { ChatFailure, [ok |-> TRUE, content |-> "# Digest", total_tokens |-> 9] }

InitSum ==
    /\ configs \in SumConfigTables
    /\ feeds = Ingested.feeds
    /\ articles = Ingested.articles
    /\ summaries = {}
    /\ digests = {}
    /\ categories = {}
    /\ tasks = SeededTasks
    /\ jobs = JobsAtStart(SeededTasks)
    /\ now = 3
    /\ run = Idle
    /\ calls = << >>
    /\ last = NoRequest

NextSum ==
    \/ \E a \in SumArticleIds, resp \in ChatResponses : summarize_article(a, resp)
    \/ \E ids \in Batches, c \in BatchConfigIds : batch_summarize_start(ids, c)
    \/ \E resp \in ChatResponses : batch_summarize_step(resp)
    \/ \E p \in PeriodTypes, w \in Windows, c \in SumConfigIds,
          resp \in DigestResponses : generate_digest(p, w[1], w[2], c, resp)

SpecSum == InitSum /\ [][NextSum]_vars

----------------------------------------------------------------------------
(* Properties of the provider configs, checked under SpecLLM *)

Defaults == {c \in configs : c.is_default}

\* C1: in every state reached by provider-config requests handled one after
\* another (create with or without is_default, update, set-default, delete),
\* at most one config has is_default = true
C1_AtMostOneDefault == Cardinality(Defaults) <= 1

\* A config was created as the default while another config was the default
C1_Witness ==
    /\ last.op = "create_provider"
    /\ last.is_default
    /\ last.prior # {}
    /\ Cardinality(configs) >= 2
    /\ Defaults = ConfigById(last.config_id)

\* C7: after an update or set-default request that sets is_default = true on
\* a config C has completed, exactly one config is the default and it is C,
\* whether no config, C itself or another config was the default before
C7_PromotedIsTheOnlyDefault ==
    (last.op \in {"update_provider", "set_default_provider"}
        /\ last.status = 200 /\ last.is_default)
      => /\ Cardinality(Defaults) = 1
         /\ \A c \in Defaults : c.id = last.config_id

\* An update made C the default while another config was, with a third there
C7_Witness ==
    /\ last.op = "update_provider"
    /\ last.status = 200
    /\ last.is_default
    /\ last.prior # {}
    /\ last.config_id \notin last.prior
    /\ Cardinality(configs) = 3
    /\ Defaults = ConfigById(last.config_id)

----------------------------------------------------------------------------
(* Properties of fetch and ingest, checked under SpecFeed *)

\* The request l made fetch_feed run on a feed of the store (for
\* fetch_all_active_feeds: its latest iteration)
IsFetch(l) ==
    /\ l.op \in {"fetch_feed", "fetch_all_active_feeds"}
    /\ l.resp.kind # "none"
    /\ l.feed_id \in DOMAIN feeds

\* What that run of fetch_feed returned or raised
FetchResult(l) ==
    IF l.op = "fetch_feed" THEN l.result ELSE l.outcomes[Len(l.outcomes)]

Is200(l) == l.resp.kind = "http" /\ l.resp.status_code = 200

ArticlesOf(rows, f) == {a \in rows : a.feed_id = f}

\* C3: when a feed is fetched twice in a row and both responses are 200 with
\* the same entries, the second fetch inserts no article and returns
\* new_articles = 0: the stored articles are those after the first fetch
C3_RefetchInsertsNothing ==
    [][ (/\ IsFetch(last) /\ Is200(last)
         /\ IsFetch(last') /\ Is200(last')
         /\ last'.feed_id = last.feed_id
         /\ last'.resp.entries = last.resp.entries)
        => /\ FetchResult(last').raised = ""
           /\ FetchResult(last').new_articles = 0
           /\ articles' = articles ]_vars

\* The same two-entry document was fetched twice in a row for a feed
C3_Witness ==
    /\ last.op = "fetch_feed"
    /\ last.again
    /\ Is200(last)
    /\ Len(last.resp.entries) = 2
    /\ last.result.new_articles = 0
    /\ Cardinality(ArticlesOf(articles, last.feed_id)) = 2

\* C4: a fetch of an existing feed answered with 304 returns not_modified
\* with new_articles = 0, leaves the articles and the feed's etag,
\* last_modified, title, description and site_url as they were, and sets
\* last_fetched_at to the time of the fetch
C4_NotModifiedOnlyStamps ==
    [][ (/\ IsFetch(last')
         /\ last'.resp.kind = "http"
         /\ last'.resp.status_code = 304)
        => LET f == last'.feed_id
           IN  /\ FetchResult(last') = [raised |-> "", feed_id |-> f,
                                        new_articles |-> 0,
                                        status |-> "not_modified"]
               /\ articles' = articles
               /\ \A k \in {"etag", "last_modified", "title", "description",
                            "site_url"} : feeds'[f][k] = feeds[f][k]
               /\ feeds'[f].last_fetched_at = now ]_vars

\* A feed with stored tokens, metadata and articles was answered with 304
C4_Witness ==
    /\ last.op = "fetch_feed"
    /\ last.feed_id \in DOMAIN feeds
    /\ last.resp.kind = "http"
    /\ last.resp.status_code = 304
    /\ last.result.status = "not_modified"
    /\ feeds[last.feed_id].etag = "e1"
    /\ feeds[last.feed_id].site_url = "L1"
    /\ ArticlesOf(articles, last.feed_id) # {}
    /\ feeds[last.feed_id].last_fetched_at = now - 1

\* C8: while a 200 response is ingested, an entry whose (feed, guid) is
\* stored already, from an earlier fetch or from an earlier entry of the
\* document, is skipped and the run goes on: afterwards every guid of the
\* document is stored once for the feed, the rows added are those of the
\* guids that were new, the metadata of the fetch is stored, and new_articles
\* is the number of rows added
C8_DuplicateEntryIsSkipped ==
    [][ (IsFetch(last') /\ Is200(last'))
        => LET f == last'.feed_id
               resp == last'.resp
               guids == {_entry_guid(resp.entries[i], feeds[f].url)
                           : i \in 1..Len(resp.entries)}
               added == articles' \ articles
           IN  /\ FetchResult(last').raised = ""
               /\ FetchResult(last').status = "ok"
               /\ articles \subseteq articles'
               /\ \A g \in guids :
                    Cardinality({a \in ArticlesOf(articles', f) : a.guid = g}) = 1
               /\ \A a \in added :
                    /\ a.feed_id = f
                    /\ a.guid \in guids
                    /\ \A b \in ArticlesOf(articles, f) : b.guid # a.guid
               /\ FetchResult(last').new_articles = Cardinality(added)
               /\ feeds'[f].last_fetched_at = now
               /\ (resp.etag \notin {NULL, ""}) => feeds'[f].etag = resp.etag
               /\ (resp.last_modified \notin {NULL, ""})
                    => feeds'[f].last_modified = resp.last_modified
               /\ (resp.parsed.link # "") => feeds'[f].site_url = resp.parsed.link
               /\ (resp.parsed.description = "" /\ resp.parsed.subtitle # "")
                    => feeds'[f].description = resp.parsed.subtitle ]_vars

\* The first entry of a document had a guid stored by an earlier fetch and
\* was skipped; the entry after it was inserted and the metadata stored
C8_Witness ==
    /\ last.op = "fetch_feed"
    /\ last.feed_id \in DOMAIN feeds
    /\ Is200(last)
    /\ last.resp.entries = <<EntryB, EntryC>>
    /\ last.result.new_articles = 1
    /\ \E a \in ArticlesOf(articles, last.feed_id) : a.guid = "g1" /\ a.title = "A"
    /\ \E a \in ArticlesOf(articles, last.feed_id) :
         a.guid = "l1" /\ a.id = NextId(articles) - 1
    /\ feeds[last.feed_id].etag = "e1"
    /\ feeds[last.feed_id].last_fetched_at = now - 1

\* The new articles of the outcomes that are returns, not exceptions
RECURSIVE SumNewArticles(_)
SumNewArticles(outcomes) ==
    IF outcomes = << >> THEN 0
    ELSE (IF Head(outcomes).raised = "" THEN Head(outcomes).new_articles ELSE 0)
           + SumNewArticles(Tail(outcomes))

\* C9: a finished fetch_all_active_feeds has run fetch_feed once on each feed
\* that was active and on no inactive feed, the feeds after a failed one
\* included; its report has feeds_processed = the number of active feeds,
\* new_articles = the sum over the feeds that succeeded, and one errors entry
\* per feed that failed
C9_FetchAllReport ==
    (last.op = "fetch_all_active_feeds" /\ last.done)
      => LET out == last.outcomes
             n == Len(out)
             failed == {i \in 1..n : out[i].raised # ""}
             errors == last.report.errors
         IN  /\ n = Cardinality(last.selected)
             /\ {out[i].feed_id : i \in 1..n} = last.selected
             /\ \A i \in 1..n : out[i].feed_id \notin last.inactive
             /\ last.report.feeds_processed = Cardinality(last.selected)
             /\ last.report.new_articles = SumNewArticles(out)
             /\ Len(errors) = Cardinality(failed)
             /\ \A i \in failed :
                  Cardinality({k \in 1..Len(errors) :
                                 errors[k].feed_id = out[i].feed_id}) = 1
             /\ \A k \in 1..Len(errors) :
                  \E i \in failed : /\ errors[k].feed_id = out[i].feed_id
                                    /\ errors[k].error = out[i].raised

\* The fetch of the first feed failed and the fetch of the second feed
\* inserted articles
C9_Witness ==
    /\ last.op = "fetch_all_active_feeds"
    /\ last.done
    /\ Len(last.outcomes) = 2
    /\ last.outcomes[1].raised # ""
    /\ last.outcomes[2].new_articles > 0
    /\ Len(last.report.errors) = 1
    /\ last.report.new_articles = last.outcomes[2].new_articles

----------------------------------------------------------------------------
(* Properties of summaries and digests, checked under SpecSum *)

\* The request l made summarize_article run (for batch_summarize: its latest
\* iteration)
IsSummarize(l) ==
    \/ l.op = "summarize_article"
    \/ l.op = "batch_summarize" /\ l.outcomes # << >>

\* The article id that run was given, and what it returned or raised
SummarizedId(l) ==
    IF l.op = "summarize_article" THEN l.article_id
    ELSE l.article_ids[Len(l.outcomes)]

SummarizeOutcome(l) ==
    IF l.op = "summarize_article" THEN l.outcome ELSE l.outcomes[Len(l.outcomes)]

\* The provider invocations made for the summary of an article
CallsAbout(article_id) ==
    {i \in 1..Len(calls) : calls[i].kind = "summary" /\ calls[i].about = article_id}

C5_EmptyWindowFails ==
    [][ (/\ last'.op = "generate_digest"
         /\ ~ \E a \in articles, s \in summaries :
                /\ s.article_id = a.id
                /\ a.published_at # Never
                /\ a.published_at >= last'.start
                /\ a.published_at < last'.end)
        => /\ last'.status = 404
           /\ last'.report = {}
           /\ calls' = calls
           /\ digests' = digests ]_vars

\* A digest was requested, with a default config in place, for a window whose
\* only article has no summary while another article has one
C5_Witness ==
    /\ last.op = "generate_digest"
    /\ last.status = 404
    /\ last.cause = "no_summarized_articles"
    /\ InWindow(articles, last.start, last.end) # {}
    /\ summaries # {}
    /\ \E c \in configs : c.is_default

\* C6: a summarize_article or generate_digest that fails (article missing, no
\* provider config resolved, provider call failed) adds no Summary and no
\* DigestReport row and changes none; a row is added only in a step whose
\* provider call returned successfully, and it is the only change
C6_AllOrNothing ==
    [][ LET unchanged == summaries' = summaries /\ digests' = digests
            failed == \/ IsSummarize(last') /\ SummarizeOutcome(last').raised # ""
                      \/ last'.op = "generate_digest" /\ last'.status # 201
            missing == /\ IsSummarize(last')
                       /\ \A a \in articles : a.id # SummarizedId(last')
                       /\ \A s \in summaries : s.article_id # SummarizedId(last')
            called == Len(calls') = Len(calls) + 1
        IN  /\ failed => unchanged
            /\ missing => failed /\ calls' = calls
            /\ (called /\ ~calls'[Len(calls')].ok) => failed
            /\ ~unchanged
                 => /\ called
                    /\ calls' = Append(calls, calls'[Len(calls')])
                    /\ calls'[Len(calls')].ok
                    /\ summaries \subseteq summaries'
                    /\ digests \subseteq digests'
                    /\ Cardinality((summaries' \ summaries)
                                     \cup (digests' \ digests)) = 1 ]_vars

\* The provider call of a summarize_article failed while a Summary and a
\* DigestReport were stored
C6_Witness ==
    /\ last.op = "summarize_article"
    /\ last.outcome.cause = "provider_failed"
    /\ last.status = 502
    /\ calls # << >>
    /\ ~calls[Len(calls)].ok
    /\ summaries # {}
    /\ digests # {}

\* C10: a finished batch_summarize returns one result per element of
\* article_ids, in input order; an element that failed (article missing, no
\* config, provider failure) has success = false and the error, the elements
\* after it are processed all the same; an element with success = true has
\* the id of the Summary of its article
C10_BatchResults ==
    (last.op = "batch_summarize" /\ last.done)
      => LET ids == last.article_ids
             res == last.results
         IN  /\ Len(res) = Len(ids)
             /\ Len(last.outcomes) = Len(ids)
             /\ \A i \in 1..Len(ids) :
                  /\ res[i].article_id = ids[i]
                  /\ res[i].success = (last.outcomes[i].raised = "")
                  /\ res[i].success
                       => /\ res[i].error = ""
                          /\ \E s \in summaries : /\ s.article_id = ids[i]
                                                  /\ s.id = res[i].summary_id
                  /\ ~res[i].success
                       => /\ res[i].error = last.outcomes[i].raised
                          /\ res[i].summary_id = 0
                  /\ (\A a \in articles : a.id # ids[i]) => ~res[i].success
                  /\ (res[i].success /\ last.outcomes[i].cause = "created")
                       => \E c \in configs :
                            IF last.config_id = NoConfigId THEN c.is_default
                            ELSE c.id = last.config_id

\* The first element of a batch failed and the second got a new Summary
C10_Witness ==
    /\ last.op = "batch_summarize"
    /\ last.done
    /\ Len(last.results) = 2
    /\ ~last.results[1].success
    /\ last.results[2].success
    /\ last.outcomes[2].cause = "created"

\* C11: a successful generate_digest(start, end) covers exactly the articles
\* with start <= published_at < end that have a Summary (not those published
\* at end, those without a publication time, those without a Summary), and
\* the article_count of the stored report is the number of covered articles
C11_DigestCoversTheWindow ==
    (last.op = "generate_digest" /\ last.status = 201)
      => /\ last.covered =
              {a.id : a \in {x \in articles :
                  /\ x.published_at # Never
                  /\ last.start <= x.published_at
                  /\ x.published_at < last.end
                  /\ \E s \in summaries : s.article_id = x.id}}
         /\ \A r \in last.report :
              /\ r \in digests
              /\ r.article_count = Cardinality(last.covered)
              /\ r.period_start = last.start
              /\ r.period_end = last.end
         /\ Cardinality(last.report) = 1

\* A digest covered one article while a summarized article published at the
\* end of the window and an article without a Summary were left out
C11_Witness ==
    /\ last.op = "generate_digest"
    /\ last.status = 201
    /\ Cardinality(last.covered) = 1
    /\ \E a \in articles : /\ a.published_at = last.end
                           /\ \E s \in summaries : s.article_id = a.id
    /\ \E a \in articles : \A s \in summaries : s.article_id # a.id
    /\ \A r \in last.report : r.article_count = 1

\* C12: every successful generate_digest inserts exactly one DigestReport
\* with an id no report had, also when a report for the same period kind and
\* window exists, and leaves the reports there were unchanged
C12_DigestAlwaysInserts ==
    [][ (last'.op = "generate_digest" /\ last'.status = 201)
        => /\ digests \subseteq digests'
           /\ digests' \ digests = last'.report
           /\ Cardinality(last'.report) = 1
           /\ \A r \in last'.report : \A old \in digests : old.id # r.id ]_vars

\* A second report was stored for the period kind and window of the first
C12_Witness ==
    /\ last.op = "generate_digest"
    /\ last.status = 201
    /\ Cardinality(digests) = 2
    /\ \A r, q \in digests : /\ r.period_type = q.period_type
                             /\ r.period_start = q.period_start
                             /\ r.period_end = q.period_end
                             /\ r.content = q.content
    /\ last.report \subseteq digests

----------------------------------------------------------------------------
(* The monthly digest window: services/digest_service.py.  Under SpecMonth  *)
(* the clock and every published_at count days: day 1 is the Epoch, and a   *)
(* window bound is the day whose 00:00 UTC it is.                           *)

Epoch == [year |-> 2023, month |-> 1, day |-> 1]

IsLeap(y) == (y % 4 = 0 /\ y % 100 # 0) \/ y % 400 = 0

DaysInMonth(y, m) ==
    IF m = 2 THEN (IF IsLeap(y) THEN 29 ELSE 28)
    ELSE IF m \in {4, 6, 9, 11} THEN 30 ELSE 31

DaysInYear(y) == IF IsLeap(y) THEN 366 ELSE 365

\* The date of day n counted from the first day of month m of year y
RECURSIVE DateFrom(_, _, _)
DateFrom(y, m, n) ==
    IF n > DaysInMonth(y, m)
      THEN IF m = 12 THEN DateFrom(y + 1, 1, n - DaysInMonth(y, m))
           ELSE DateFrom(y, m + 1, n - DaysInMonth(y, m))
      ELSE [year |-> y, month |-> m, day |-> n]

\* The datetime of a day number
FromOrdinal(n) == DateFrom(Epoch.year, Epoch.month, n)

\* The days of the months of year y before month m
RECURSIVE DaysBeforeMonth(_, _)
DaysBeforeMonth(y, m) ==
    IF m = 1 THEN 0 ELSE DaysBeforeMonth(y, m - 1) + DaysInMonth(y, m - 1)

\* The days of the years from the Epoch's to the one before y
RECURSIVE DaysBeforeYear(_)
DaysBeforeYear(y) ==
    IF y = Epoch.year THEN 0 ELSE DaysBeforeYear(y - 1) + DaysInYear(y - 1)

\* The day number of a datetime
ToOrdinal(d) == DaysBeforeYear(d.year) + DaysBeforeMonth(d.year, d.month) + d.day

\* A window of thirty days from the first of the month
ThirtyDays(d) ==
    LET start == [d EXCEPT !.day = 1]
    IN  [start |-> start, end |-> FromOrdinal(ToOrdinal(start) + 30)]

\* generate_monthly_digest: start = date.replace(day=1, ...) and the first day
\* of the next month
MonthWindow(d) ==
    LET start == [d EXCEPT !.day = 1]
    IN  [start |-> start,
         end |-> IF start.month = 12
                   THEN [start EXCEPT !.year = @ + 1, !.month = 1]
                   ELSE [start EXCEPT !.month = @ + 1]]

\* date = None: the parameter's default
NoDate == 0

\* timedelta(days=32)
AnchorDays == 32

\* The date generate_monthly_digest works with, as a day number
MonthlyAnchor(date, today) == IF date = NoDate THEN today - AnchorDays ELSE date

MaxDay == 731       \* the last day of the calendar (2024-12-31)

\* The day feed 1 was fetched
FetchDay == ToOrdinal([year |-> 2024, month |-> 3, day |-> 2])

\* The days on which the digest runs: from the day of the fetch on
Today == FetchDay..MaxDay

\* The anchor dates of the requests that give one
Anchors ==
    { ToOrdinal([year |-> 2024, month |-> 3, day |-> 15]),
      ToOrdinal([year |-> 2023, month |-> 12, day |-> 31]) }

\* The store of SpecMonth: feed 1 fetched on FetchDay with an entry of
\* 2024-02-10 and one of 2024-03-01, the first one summarized since, and a
\* default provider config
MonthStore ==
    LET feb == [EntryA EXCEPT !.published =
                   ToOrdinal([year |-> 2024, month |-> 2, day |-> 10])]
        mar == [EntryC EXCEPT !.published =
                   ToOrdinal([year |-> 2024, month |-> 3, day |-> 1])]
        fetched == FetchFeed(InitFeeds, {}, 1, Ok200(<<feb, mar>>), FetchDay)
        cfgs == CreatedConfigs({}, [provider_type |-> "openai",
                                    model_name |-> "m1", is_default |-> TRUE])
        done == SummarizeArticle(fetched.articles, {}, cfgs, 1, NoConfigId,
                                 CHOOSE r \in ChatResponses : r.ok /\ r.total_tokens = 7)
    IN  [feeds |-> fetched.feeds, articles |-> fetched.articles,
         summaries |-> done.summaries, configs |-> cfgs]

\* generate_monthly_digest(db, date, llm_config_id), called by the scheduler's
\* monthly_digest task and by POST /summaries/digests/generate
generate_monthly_digest(date, config_id, resp) ==
    /\ run.pc = "idle"
    /\ Len(calls) < MaxCalls
    /\ LET anchor == MonthlyAnchor(date, now)
           window == MonthWindow(FromOrdinal(anchor))
           out == GenerateDigest(articles, summaries, configs, digests, "monthly",
                                 ToOrdinal(window.start), ToOrdinal(window.end),
                                 config_id, resp)
       IN  /\ digests' = out.digests
           /\ calls' = calls \o out.invoked
           /\ last' = [op |-> "generate_monthly_digest", today |-> now,
                       given |-> (date # NoDate), anchor |-> anchor,
                       start |-> ToOrdinal(window.start),
                       end |-> ToOrdinal(window.end),
                       status |-> HttpStatus(out.raised, 201),
                       cause |-> out.cause, covered |-> out.covered,
                       report |-> out.report]
    /\ UNCHANGED <<tasks, jobs, categories, configs, feeds, articles, summaries, now, run>>

InitMonth ==
    /\ configs = MonthStore.configs
    /\ feeds = MonthStore.feeds
    /\ articles = MonthStore.articles
    /\ summaries = MonthStore.summaries
    /\ digests = {}
    /\ categories = {}
    /\ tasks = SeededTasks
    /\ jobs = JobsAtStart(SeededTasks)
    /\ now \in Today
    /\ run = Idle
    /\ calls = << >>
    /\ last = NoRequest

NextMonth ==
    \/ \E resp \in DigestResponses : generate_monthly_digest(NoDate, NoConfigId, resp)
    \/ \E date \in Anchors, resp \in DigestResponses :
         generate_monthly_digest(date, NoConfigId, resp)

SpecMonth == InitMonth /\ [][NextMonth]_vars

\* The calendar month before the month of a date
MonthBefore(d) ==
    IF d.month = 1 THEN [year |-> d.year - 1, month |-> 12]
    ELSE [year |-> d.year, month |-> d.month - 1]

\* C13: when generate_monthly_digest runs without an anchor date, its anchor,
\* 32 days before the current date, lies in the calendar month immediately
\* before the current month, on every day of the month (the 1st, when the
\* monthly_digest task runs, included): the window is the previous month
C13_DefaultAnchorIsLastMonth ==
    (last.op = "generate_monthly_digest" /\ ~last.given)
      => LET today == FromOrdinal(last.today)
             anchor == FromOrdinal(last.anchor)
             start == FromOrdinal(last.start)
         IN  /\ [year |-> anchor.year, month |-> anchor.month] = MonthBefore(today)
             /\ [year |-> start.year, month |-> start.month] = MonthBefore(today)

\* C20: for every anchor date the monthly window runs from the first day of
\* the anchor's month to the first day of the following month (January of the
\* next year after December), e.g. anchor 2024-03-15 gives 2024-03-01 to
\* 2024-04-01, and the anchor's day is in the window
C20_MonthlyWindow ==
    (last.op = "generate_monthly_digest")
      => LET anchor == FromOrdinal(last.anchor)
             start == FromOrdinal(last.start)
             end == FromOrdinal(last.end)
         IN  /\ start = [year |-> anchor.year, month |-> anchor.month, day |-> 1]
             /\ end = IF anchor.month = 12
                        THEN [year |-> anchor.year + 1, month |-> 1, day |-> 1]
                        ELSE [year |-> anchor.year, month |-> anchor.month + 1,
                              day |-> 1]
             /\ last.end - last.start = DaysInMonth(anchor.year, anchor.month)
             /\ last.start <= last.anchor
             /\ last.anchor < last.end
             /\ (anchor = [year |-> 2024, month |-> 3, day |-> 15])
                  => /\ start = [year |-> 2024, month |-> 3, day |-> 1]
                     /\ end = [year |-> 2024, month |-> 4, day |-> 1]

\* The window of the anchor 2023-12-31, given in a request, ends on
\* 2024-01-01, after a digest of February 2024 was stored
C20_Witness ==
    /\ last.op = "generate_monthly_digest"
    /\ last.given
    /\ FromOrdinal(last.anchor) = [year |-> 2023, month |-> 12, day |-> 31]
    /\ FromOrdinal(last.end) = [year |-> 2024, month |-> 1, day |-> 1]
    /\ \E r \in digests :
         /\ r.period_type = "monthly"
         /\ FromOrdinal(r.period_start) = [year |-> 2024, month |-> 2, day |-> 1]
         /\ FromOrdinal(r.period_end) = [year |-> 2024, month |-> 3, day |-> 1]
         /\ r.article_count = 1

----------------------------------------------------------------------------
(* Articles and their feed: routers/articles.py, feed_service.delete_feed *)

\* PUT /articles/{article_id}/read and /star: the flag is negated
Toggled(arts, article_id, flag) ==
    {IF a.id = article_id THEN [a EXCEPT ![flag] = ~@] ELSE a : a \in arts}

toggle_read(article_id) ==
    /\ run.pc = "idle"
    /\ articles' = Toggled(articles, article_id, "is_read")
    /\ last' = [op |-> "toggle_read", article_id |-> article_id,
                status |-> IF \E a \in articles : a.id = article_id THEN 200 ELSE 404]
    /\ UNCHANGED <<tasks, jobs, categories, configs, feeds, summaries, digests, now, run, calls>>

toggle_star(article_id) ==
    /\ run.pc = "idle"
    /\ articles' = Toggled(articles, article_id, "is_starred")
    /\ last' = [op |-> "toggle_star", article_id |-> article_id,
                status |-> IF \E a \in articles : a.id = article_id THEN 200 ELSE 404]
    /\ UNCHANGED <<tasks, jobs, categories, configs, feeds, summaries, digests, now, run, calls>>

\* db.delete(feed); db.commit(): RSSFeed.articles has no delete cascade, so the
\* flush first sets feed_id of the feed's articles to NULL, which the NOT NULL
\* column refuses (IntegrityError), and nothing is committed
DeleteFeed(fs, arts, feed_id) ==
    IF feed_id \notin DOMAIN fs
      THEN [feeds |-> fs, raised |-> "HTTPException"]
    ELSE IF \E a \in arts : a.feed_id = feed_id
      THEN [feeds |-> fs, raised |-> "IntegrityError"]
    ELSE [feeds |-> [f \in DOMAIN fs \ {feed_id} |-> fs[f]], raised |-> ""]

\* DELETE /feeds/{feed_id}
delete_feed(feed_id) ==
    /\ run.pc = "idle"
    /\ LET out == DeleteFeed(feeds, articles, feed_id)
       IN  /\ feeds' = out.feeds
           /\ last' = [op |-> "delete_feed", feed_id |-> feed_id,
                       status |-> CASE out.raised = "" -> 204
                                    [] out.raised = "HTTPException" -> 404
                                    [] OTHER -> 500]
    /\ UNCHANGED <<tasks, jobs, categories, configs, articles, summaries, digests, now, run, calls>>

\* The documents fetched under SpecArticle
ArticleResponses ==
    { Ok200(d) : d \in { <<EntryA>>, <<EntryA, EntryB>>, <<EntryB, EntryC>> } }

\* The article ids of the toggle requests: the first article, and none
ToggledIds == {1, 9}

NextArticle ==
    \/ \E f \in FeedIds, resp \in ArticleResponses : fetch_feed(f, resp)
    \/ \E a \in ToggledIds : toggle_read(a)
    \/ \E a \in ToggledIds : toggle_star(a)
    \/ \E f \in FeedIds \cup MissingFeedIds : delete_feed(f)

SpecArticle == InitFeed /\ [][NextArticle]_vars

\* C14: deleting a feed that has articles succeeds and removes the feed with
\* all its articles: afterwards no article references the deleted feed, and
\* the articles of other feeds are unchanged
C14_DeleteFeedRemovesArticles ==
    [][ (/\ last'.op = "delete_feed"
         /\ last'.feed_id \in DOMAIN feeds
         /\ ArticlesOf(articles, last'.feed_id) # {})
        => /\ last'.status = 204
           /\ last'.feed_id \notin DOMAIN feeds'
           /\ ArticlesOf(articles', last'.feed_id) = {}
           /\ \A f \in DOMAIN feeds \ {last'.feed_id} :
                ArticlesOf(articles', f) = ArticlesOf(articles, f) ]_vars

\* C15: a stored article is never changed by a later fetch: when a fetched
\* entry has the (feed, guid) of an existing article, with whatever title,
\* link, author, content or date, the existing article keeps all its fields,
\* its read and starred flags included, and no second article is created
C15_FetchNeverChangesAnArticle ==
    [][ (last'.op = "fetch_feed" /\ last'.feed_id \in DOMAIN feeds)
        => /\ articles \subseteq articles'
           /\ \A a, b \in articles' :
                (a.feed_id = b.feed_id /\ a.guid = b.guid) => a = b
           /\ \A i \in 1..Len(last'.resp.entries) :
                LET guid == _entry_guid(last'.resp.entries[i], feeds[last'.feed_id].url)
                IN  \A a \in articles :
                      (a.feed_id = last'.feed_id /\ a.guid = guid)
                        => /\ a \in articles'
                           /\ \A b \in articles' :
                                (b.feed_id = a.feed_id /\ b.guid = guid) => b = a ]_vars

\* A fetch brought the entry B for the guid g1 of a stored, read and starred
\* article: the article still has the title, link, author, content and date
\* of entry A
C15_Witness ==
    /\ last.op = "fetch_feed"
    /\ last.resp.entries = <<EntryB, EntryC>>
    /\ \E a \in articles :
         /\ a.feed_id = last.feed_id
         /\ a.guid = "g1"
         /\ a.title = "A" /\ a.url = "l0" /\ a.author = NULL /\ a.content = "a"
         /\ a.published_at = 1
         /\ a.is_read /\ a.is_starred

----------------------------------------------------------------------------
(* Two provider-config requests in flight at once: routers/llm.py.  Each    *)
(* request has its own session.  _get_config_or_404 is a read of the        *)
(* committed rows; from its first UPDATE or INSERT to its commit a request  *)
(* holds the write lock of the SQLite store, so the writes of one request   *)
(* are one step.                                                            *)

Requests == {1, 2}

NotStarted == [pc |-> "none"]

\* The flush of a loaded config: the unit of work writes the attributes whose
\* value differs from the one the session loaded, and no other column
FlushNetChanges(rows, loaded, updates) ==
    { IF c.id = loaded.id
        THEN [f \in DOMAIN c |->
                IF f \in DOMAIN updates /\ updates[f] # loaded[f]
                  THEN updates[f] ELSE c[f]]
        ELSE c : c \in rows }

\* set_default_provider up to its first await after _get_config_or_404
set_default_load(i, config_id) ==
    /\ run.pc = "race"
    /\ run.reqs[i] = NotStarted
    /\ run' = [run EXCEPT !.reqs[i] =
                 IF ConfigById(config_id) = {}
                   THEN [pc |-> "done", op |-> "set_default_provider",
                         config_id |-> config_id, status |-> 404]
                   ELSE [pc |-> "loaded", op |-> "set_default_provider",
                         config_id |-> config_id,
                         updates |-> [is_default |-> TRUE],
                         loaded |-> CHOOSE c \in ConfigById(config_id) : TRUE]]
    /\ UNCHANGED <<tasks, jobs, categories, configs, feeds, articles, summaries, digests, now, calls, last>>

\* update_provider up to its first await after _get_config_or_404
update_load(i, config_id, updates) ==
    /\ run.pc = "race"
    /\ run.reqs[i] = NotStarted
    /\ run' = [run EXCEPT !.reqs[i] =
                 IF ConfigById(config_id) = {}
                   THEN [pc |-> "done", op |-> "update_provider",
                         config_id |-> config_id, status |-> 404]
                   ELSE [pc |-> "loaded", op |-> "update_provider",
                         config_id |-> config_id, updates |-> updates,
                         loaded |-> CHOOSE c \in ConfigById(config_id) : TRUE]]
    /\ UNCHANGED <<tasks, jobs, categories, configs, feeds, articles, summaries, digests, now, calls, last>>

\* The rest of set_default_provider or update_provider: the UPDATE of the
\* other configs, the flush of the loaded config and the commit
write_commit(i) ==
    /\ run.pc = "race"
    /\ run.reqs[i].pc = "loaded"
    /\ LET r == run.reqs[i]
           promote == "is_default" \in DOMAIN r.updates /\ r.updates.is_default
           demoted == IF promote THEN Demote(configs, r.config_id) ELSE configs
       IN  /\ configs' = FlushNetChanges(demoted, r.loaded, r.updates)
           /\ run' = [run EXCEPT !.reqs[i] =
                        [pc |-> "done", op |-> r.op, config_id |-> r.config_id,
                         status |-> 200]]
           /\ last' = [last EXCEPT !.committed =
                         IF promote THEN Append(@, r.config_id) ELSE @]
    /\ UNCHANGED <<tasks, jobs, categories, feeds, articles, summaries, digests, now, calls>>

\* create_provider: it reads nothing before its writes
create_commit(i, body) ==
    /\ run.pc = "race"
    /\ run.reqs[i] = NotStarted
    /\ configs' = CreatedConfigs(configs, body)
    /\ run' = [run EXCEPT !.reqs[i] =
                 [pc |-> "done", op |-> "create_provider",
                  config_id |-> NextId(configs), status |-> 201]]
    /\ last' = [last EXCEPT !.committed =
                  IF body.is_default THEN Append(@, NextId(configs)) ELSE @]
    /\ UNCHANGED <<tasks, jobs, categories, feeds, articles, summaries, digests, now, calls>>

\* The config tables the two requests find: configs 1 and 2, neither or one
\* of them the default
RaceTables ==
    { CreatedConfigs(CreatedConfigs({}, a), b) :
        a, b \in {c \in CreateBodies : c.provider_type = "openai" /\ c.model_name = "m1"} }

\* The bodies of the update requests: those that set is_default
RaceUpdates == {u \in UpdateBodies : "is_default" \in DOMAIN u /\ u.is_default}

InitRace ==
    /\ configs \in RaceTables
    /\ feeds = << >>
    /\ articles = {}
    /\ summaries = {}
    /\ digests = {}
    /\ categories = {}
    /\ tasks = SeededTasks
    /\ jobs = JobsAtStart(SeededTasks)
    /\ now = 1
    /\ run = [pc |-> "race", reqs |-> [i \in Requests |-> NotStarted]]
    /\ calls = << >>
    /\ last = [op |-> "race", committed |-> << >>]

NextRace ==
    \/ \E i \in Requests, id \in ConfigIds : set_default_load(i, id)
    \/ \E i \in Requests, id \in ConfigIds, u \in RaceUpdates : update_load(i, id, u)
    \/ \E i \in Requests : write_commit(i)
    \/ \E i \in Requests, body \in CreateBodies : create_commit(i, body)

SpecRace == InitRace /\ [][NextRace]_vars

\* C16: for every interleaving of two concurrent requests that each make a
\* different config the default (set-default, update with is_default = true,
\* create with is_default = true), once both have committed at most one
\* config has is_default = true, namely the one of the request that
\* committed last
C16_LastCommitIsTheDefault ==
    (/\ \A i \in Requests : run.reqs[i].pc = "done"
     /\ Len(last.committed) = 2
     /\ last.committed[1] # last.committed[2])
      => {c.id : c \in {x \in configs : x.is_default}} = {last.committed[2]}

----------------------------------------------------------------------------
(* Two summarize requests in flight at once: summary_service.py.  From its  *)
(* look-up of an existing summary to provider.chat a request only reads,    *)
(* and of these reads only the first is of a table (summaries) that a       *)
(* summarize request writes; the INSERT and the commit follow the await of  *)
(* provider.chat.                                                           *)

\* An INSERT that no constraint refuses
PersistUnconstrained(sums, article_id, c, resp) ==
    CallAndPersist(sums, article_id, c, resp)

\* Steps 4 to 6 of summarize_article on the summaries table as it is when the
\* provider has answered: Summary.article_id is unique, a second row for the
\* article makes the commit raise IntegrityError
PersistUnique(sums, article_id, c, resp) ==
    IF resp.ok /\ \E s \in sums : s.article_id = article_id
      THEN [summaries |-> sums,
            invoked |-> <<[kind |-> "summary", about |-> article_id, ok |-> TRUE]>>,
            outcome |-> SummaryOutcome("duplicate", "IntegrityError", {})]
      ELSE CallAndPersist(sums, article_id, c, resp)

\* The requests that have called the provider and await its answer
Chatting == {i \in Requests : run.reqs[i].pc = "chatting"}

\* POST /summaries/article/{article_id} up to the await of provider.chat
summarize_begin(i, article_id) ==
    /\ run.pc = "race"
    /\ run.reqs[i].pc \in {"none", "done"}
    /\ Len(calls) + Cardinality(Chatting) < MaxCalls
    /\ LET existing == {x \in summaries : x.article_id = article_id}
           article == {a \in articles : a.id = article_id}
           config == ResolveConfig(configs, NoConfigId)
           outcome == IF existing # {} THEN SummaryOutcome("existing", "", existing)
                      ELSE IF article = {}
                        THEN SummaryOutcome("article_missing", "ValueError", {})
                      ELSE SummaryOutcome("no_config", "ValueError", {})
       IN  IF existing = {} /\ article # {} /\ config # {}
             THEN /\ run' = [run EXCEPT !.reqs[i] =
                               [pc |-> "chatting", article_id |-> article_id,
                                config |-> CHOOSE c \in config : TRUE]]
                  /\ UNCHANGED last
             ELSE /\ run' = [run EXCEPT !.reqs[i] =
                               [pc |-> "done", article_id |-> article_id,
                                outcome |-> outcome, inserted |-> FALSE,
                                status |-> HttpStatus(outcome.raised, 201)]]
                  /\ last' = [op |-> "summarize_article", req |-> i,
                              article_id |-> article_id, outcome |-> outcome,
                              inserted |-> FALSE,
                              status |-> HttpStatus(outcome.raised, 201)]
    /\ UNCHANGED <<tasks, jobs, categories, configs, feeds, articles, summaries, digests, now, calls>>

\* The rest of the request, when provider.chat has the outcome resp
summarize_finish(i, resp) ==
    /\ run.pc = "race"
    /\ run.reqs[i].pc = "chatting"
    /\ LET r == run.reqs[i]
           out == PersistUnique(summaries, r.article_id, r.config, resp)
       IN  /\ summaries' = out.summaries
           /\ calls' = calls \o out.invoked
           /\ run' = [run EXCEPT !.reqs[i] =
                        [pc |-> "done", article_id |-> r.article_id,
                         outcome |-> out.outcome,
                         inserted |-> (out.summaries # summaries),
                         status |-> HttpStatus(out.outcome.raised, 201)]]
           /\ last' = [op |-> "summarize_article", req |-> i,
                       article_id |-> r.article_id, outcome |-> out.outcome,
                       inserted |-> (out.summaries # summaries),
                       status |-> HttpStatus(out.outcome.raised, 201)]
    /\ UNCHANGED <<tasks, jobs, categories, configs, feeds, articles, digests, now>>

InitSumRace ==
    /\ configs \in SumConfigTables
    /\ feeds = Ingested.feeds
    /\ articles = Ingested.articles
    /\ summaries = {}
    /\ digests = {}
    /\ categories = {}
    /\ tasks = SeededTasks
    /\ jobs = JobsAtStart(SeededTasks)
    /\ now = 3
    /\ run = [pc |-> "race", reqs |-> [i \in Requests |-> NotStarted]]
    /\ calls = << >>
    /\ last = NoRequest

NextSumRace ==
    \/ \E i \in Requests, a \in SumArticleIds : summarize_begin(i, a)
    \/ \E i \in Requests, resp \in ChatResponses : summarize_finish(i, resp)

SpecSumRace == InitSumRace /\ [][NextSumRace]_vars

\* The requests that are answered
Answered == {i \in Requests : run.reqs[i].pc = "done"}

\* C17: there is at most one Summary per article, also when two summarize
\* requests for the same article without a summary interleave: at most one
\* of them inserts a row, and the other returns that row or fails without
\* inserting anything
C17_OneSummaryPerArticle ==
    /\ \A x, y \in summaries : x.article_id = y.article_id => x = y
    /\ \A i \in Answered :
         LET r == run.reqs[i]
         IN  \/ /\ r.inserted
                /\ r.outcome.raised = ""
                /\ r.outcome.summary \subseteq summaries
                /\ \A x \in r.outcome.summary : x.article_id = r.article_id
             \/ /\ ~r.inserted
                /\ r.outcome.raised = ""
                /\ r.outcome.summary = {x \in summaries : x.article_id = r.article_id}
                /\ r.outcome.summary # {}
             \/ /\ ~r.inserted
                /\ r.outcome.raised # ""
    /\ \A i, j \in Answered :
         (i # j /\ run.reqs[i].article_id = run.reqs[j].article_id)
           => ~(run.reqs[i].inserted /\ run.reqs[j].inserted)

\* Both requests were for article 1 and both called the provider: one
\* inserted the summary, the commit of the other was refused
C17_Witness ==
    /\ Answered = Requests
    /\ \A i \in Requests : run.reqs[i].article_id = 1
    /\ \E i, j \in Requests :
         /\ run.reqs[i].inserted
         /\ run.reqs[j].outcome.raised = "IntegrityError"
         /\ ~run.reqs[j].inserted
    /\ Cardinality({x \in summaries : x.article_id = 1}) = 1
    /\ Len(calls) = 2

----------------------------------------------------------------------------
(* Feed categories: routers/feeds.py, feed_service.py, opml_service.py *)

MaxCategories == 3

\* parent_id IS NULL, category_id IS NULL
NoCategory == 0

CategoryNames == {"x", "y"}
CategoryIds == 1..MaxCategories

\* db.delete(category) with the children left as they are
CategoriesAfterDeleteKeepingChildren(rows, category_id) ==
    {c \in rows : c.id # category_id}

\* db.delete(category): FeedCategory.children has no delete cascade, the flush
\* sets parent_id of the children to NULL and deletes the row
CategoriesAfterDelete(rows, category_id) ==
    { IF c.parent_id = category_id THEN [c EXCEPT !.parent_id = NoCategory] ELSE c
        : c \in {x \in rows : x.id # category_id} }

\* FeedCategory.feeds has no delete cascade either: category_id becomes NULL
FeedsAfterDelete(fs, category_id) ==
    [f \in DOMAIN fs |->
        IF fs[f].category_id = category_id
          THEN [fs[f] EXCEPT !.category_id = NoCategory] ELSE fs[f]]

\* POST /feeds/categories/
create_category(name, parent_id) ==
    /\ run.pc = "idle"
    /\ NextId(categories) <= MaxCategories
    /\ IF parent_id # NoCategory /\ ~\E c \in categories : c.id = parent_id
         THEN /\ last' = [op |-> "create_category", status |-> 400,
                          category_id |-> NoCategory, orphans |-> {}]
              /\ UNCHANGED categories
         ELSE /\ categories' = categories \cup
                    {[id |-> NextId(categories), name |-> name, parent_id |-> parent_id]}
              /\ last' = [op |-> "create_category", status |-> 201,
                          category_id |-> NextId(categories), orphans |-> {}]
    /\ UNCHANGED <<tasks, jobs, configs, feeds, articles, summaries, digests, now, run, calls>>

\* DELETE /feeds/categories/{category_id}
delete_category(category_id) ==
    /\ run.pc = "idle"
    /\ IF ~\E c \in categories : c.id = category_id
         THEN /\ last' = [op |-> "delete_category", status |-> 404,
                          category_id |-> category_id, orphans |-> {}]
              /\ UNCHANGED <<tasks, jobs, categories, feeds>>
         ELSE /\ categories' = CategoriesAfterDelete(categories, category_id)
              /\ feeds' = FeedsAfterDelete(feeds, category_id)
              /\ last' = [op |-> "delete_category", status |-> 204,
                          category_id |-> category_id,
                          orphans |-> {c.id : c \in {x \in categories :
                                                       x.parent_id = category_id}}]
    /\ UNCHANGED <<tasks, jobs, configs, articles, summaries, digests, now, run, calls>>

\* <outline> elements: a feed has an xmlUrl, a folder has children
OutlineFeed(url) == [text |-> "f", xmlUrl |-> url, htmlUrl |-> "", children |-> << >>]
Folder(text, children) ==
    [text |-> text, xmlUrl |-> "", htmlUrl |-> "", children |-> children]

\* The <body> of the OPML documents imported; << >> stands for a document
\* that import_opml rejects
OpmlDocs ==
    { << >>,
      <<Folder("x", <<Folder(" y ", <<OutlineFeed("https://x/feed1.xml"),
                                     OutlineFeed("https://x/feed9.xml")>>)>>)>>,
      <<Folder("", <<Folder("y", <<Folder("y", << >>)>>)>>)>>,
      <<Folder("y", <<Folder("x", << >>)>>), Folder("x", << >>)>> }

\* The RSSFeed row _process_outline adds for a feed outline
ImportedFeed(fs, outline, category_id) ==
    [id |-> NextId({fs[f] : f \in DOMAIN fs}), url |-> Strip(outline.xmlUrl),
     title |-> (IF Strip(outline.text) # "" THEN Strip(outline.text)
                ELSE Strip(outline.xmlUrl)),
     description |-> NULL,
     site_url |-> (IF Strip(outline.htmlUrl) # "" THEN Strip(outline.htmlUrl) ELSE NULL),
     category_id |-> category_id, is_active |-> TRUE, etag |-> NULL,
     last_modified |-> NULL, last_fetched_at |-> Never]

\* _process_outline on one element and, for a folder, on its children;
\* st.raised tells that scalar_one_or_none met two categories
RECURSIVE _process_outline(_, _, _)
RECURSIVE ProcessOutlines(_, _, _)
_process_outline(st, outline, parent_category_id) ==
    IF st.raised THEN st
    ELSE IF outline.xmlUrl # ""
      THEN IF \E f \in DOMAIN st.feeds : st.feeds[f].url = Strip(outline.xmlUrl)
             THEN st
             ELSE LET feed == ImportedFeed(st.feeds, outline, parent_category_id)
                  IN  [st EXCEPT !.feeds = [f \in DOMAIN st.feeds \cup {feed.id} |->
                                              IF f = feed.id THEN feed ELSE st.feeds[f]],
                                 !.created = @ + 1]
    ELSE IF Strip(outline.text) = ""
      THEN ProcessOutlines(st, outline.children, parent_category_id)
    ELSE
      \* _get_or_create_category
      LET existing == {c \in st.categories : /\ c.name = Strip(outline.text)
                                             /\ c.parent_id = parent_category_id}
          category == [id |-> NextId(st.categories), name |-> Strip(outline.text),
                       parent_id |-> parent_category_id]
      IN  IF Cardinality(existing) > 1 THEN [st EXCEPT !.raised = TRUE]
          ELSE IF existing # {}
            THEN ProcessOutlines(st, outline.children,
                                 (CHOOSE c \in existing : TRUE).id)
          ELSE ProcessOutlines([st EXCEPT !.categories = @ \cup {category}],
                               outline.children, category.id)

ProcessOutlines(st, outlines, parent_category_id) ==
    IF outlines = << >> THEN st
    ELSE ProcessOutlines(_process_outline(st, Head(outlines), parent_category_id),
                         Tail(outlines), parent_category_id)

\* POST /opml/import: nothing is committed when the import raises
import_opml(body) ==
    /\ run.pc = "idle"
    /\ LET out == ProcessOutlines([categories |-> categories, feeds |-> feeds,
                                   created |-> 0, raised |-> FALSE],
                                  body, NoCategory)
           failed == body = << >> \/ out.raised
       IN  /\ ~failed => NextId(out.categories) <= MaxCategories + 1
           /\ categories' = IF failed THEN categories ELSE out.categories
           /\ feeds' = IF failed THEN feeds ELSE out.feeds
           /\ last' = [op |-> "import_opml",
                       status |-> IF body = << >> THEN 422
                                  ELSE IF out.raised THEN 500 ELSE 200,
                       category_id |-> NoCategory, orphans |-> {},
                       feeds_created |-> IF failed THEN 0 ELSE out.created,
                       categories_created |->
                           IF failed THEN 0
                           ELSE Cardinality(out.categories) - Cardinality(categories)]
    /\ UNCHANGED <<tasks, jobs, configs, articles, summaries, digests, now, run, calls>>

InitCategory ==
    /\ configs = {}
    /\ feeds = InitFeeds
    /\ articles = {}
    /\ summaries = {}
    /\ digests = {}
    /\ categories = {}
    /\ tasks = SeededTasks
    /\ jobs = JobsAtStart(SeededTasks)
    /\ now = 1
    /\ run = Idle
    /\ calls = << >>
    /\ last = NoRequest

NextCategory ==
    \/ \E name \in CategoryNames, parent \in CategoryIds \cup {NoCategory} :
         create_category(name, parent)
    \/ \E id \in CategoryIds : delete_category(id)
    \/ \E body \in OpmlDocs : import_opml(body)

SpecCategory == InitCategory /\ [][NextCategory]_vars

\* Following parent_id from category c reaches a category without a parent
\* in at most n steps
RECURSIVE ReachesRoot(_, _)
ReachesRoot(c, n) ==
    IF c.parent_id = NoCategory THEN TRUE
    ELSE IF n = 0 THEN FALSE
    ELSE \E p \in categories : p.id = c.parent_id /\ ReachesRoot(p, n - 1)

\* C18: after any sequence of category creations, category deletions and
\* OPML imports the categories form a forest: following parent_id from any
\* category reaches a category with no parent in finitely many steps, with no
\* cycle and no parent_id that names a deleted category
C18_CategoriesFormAForest ==
    /\ \A c, d \in categories : c.id = d.id => c = d
    /\ \A c \in categories :
         /\ c.parent_id # NoCategory => \E p \in categories : p.id = c.parent_id
         /\ c.parent_id # c.id
         /\ ReachesRoot(c, Cardinality(categories))

\* A category with children was deleted, its children are roots now, and a
\* category below another one is left
C18_Witness ==
    /\ last.op = "delete_category"
    /\ last.status = 204
    /\ last.orphans # {}
    /\ \A c \in categories : c.id \in last.orphans => c.parent_id = NoCategory
    /\ \E c \in categories : c.parent_id # NoCategory

----------------------------------------------------------------------------
(* The API key in the responses: schemas/llm.py, routers/llm.py.  The rows  *)
(* under SpecMask carry the api_key column, which the other                 *)
(* specifications leave out.                                                *)

MaxKeyLen == 5

KeyAlphabet == {"a", "b"}

\* The strings over KeyAlphabet of length n
RECURSIVE KeysOfLength(_)
KeysOfLength(n) ==
    IF n = 0 THEN {""} ELSE {c \o k : c \in KeyAlphabet, k \in KeysOfLength(n - 1)}

\* api_key: str, of any length
Keys == UNION {KeysOfLength(n) : n \in 0..MaxKeyLen}

\* "*" * n
RECURSIVE Stars(_)
Stars(n) == IF n <= 0 THEN "" ELSE "*" \o Stars(n - 1)

\* raw_key[-4:]
LastFour(raw_key) ==
    SubSeq(raw_key, IF Len(raw_key) > 4 THEN Len(raw_key) - 3 ELSE 1, Len(raw_key))

\* from_orm_model: masked
Masked(raw_key) ==
    IF raw_key # "" THEN Stars(Len(raw_key) - 4) \o LastFour(raw_key) ELSE ""

\* LLMProviderConfigResponse.from_orm_model
from_orm_model(obj) ==
    [id |-> obj.id, provider_type |-> obj.provider_type, api_key_masked |-> Masked(obj.api_key),
     model_name |-> obj.model_name, is_default |-> obj.is_default]

\* The ids of the configs stored under SpecMask
KeyedIds == {1, 2}

\* LLMProviderConfigCreate bodies with their api_key
KeyedBodies ==
    [provider_type : {"openai"}, model_name : {"m1"}, is_default : {FALSE},
     api_key : Keys]

\* POST /llm/providers with the api_key column and the response
create_keyed_provider(body) ==
    /\ run.pc = "idle"
    /\ NextId(configs) \in KeyedIds
    /\ LET config == [id |-> NextId(configs), provider_type |-> body.provider_type,
                      model_name |-> body.model_name, is_default |-> body.is_default,
                      api_key |-> body.api_key]
       IN  /\ configs' = (IF body.is_default THEN DemoteAll(configs) ELSE configs)
                            \cup {config}
           /\ last' = [op |-> "create_provider", status |-> 201,
                       response |-> <<from_orm_model(config)>>]
    /\ UNCHANGED <<tasks, jobs, categories, feeds, articles, summaries, digests, now, run, calls>>

\* GET /llm/providers: the configs ordered by id
list_providers ==
    /\ run.pc = "idle"
    /\ last' = [op |-> "list_providers", status |-> 200,
                response |-> [i \in 1..Cardinality(configs) |->
                                from_orm_model(CHOOSE c \in configs : c.id = i)]]
    /\ UNCHANGED <<tasks, jobs, categories, configs, feeds, articles, summaries, digests, now, run,
                   calls>>

NextMask ==
    \/ \E body \in KeyedBodies : create_keyed_provider(body)
    \/ list_providers

SpecMask == InitLLM /\ [][NextMask]_vars

\* The last k characters of s, all of s when it is shorter
Suffix(s, k) == SubSeq(s, IF Len(s) > k THEN Len(s) - k + 1 ELSE 1, Len(s))

\* The characters of s from position i to j are all "*"
RECURSIVE AllStars(_, _, _)
AllStars(s, i, j) ==
    IF i > j THEN TRUE ELSE SubSeq(s, i, i) = "*" /\ AllStars(s, i + 1, j)

\* C19: every provider-config response masks the API key: for every stored
\* key, api_key_masked shows only the key's last 4 characters and "*" for
\* each other character, so the response never discloses the complete key,
\* and two keys of equal length that agree on their last 4 characters give
\* the same api_key_masked
C19_KeyIsMasked ==
    (last.op \in {"create_provider", "list_providers"})
      => \A i \in DOMAIN last.response :
           \A c \in {x \in configs : x.id = last.response[i].id} :
             LET masked == last.response[i].api_key_masked
                 n == Len(c.api_key)
             IN  /\ Len(masked) = n
                 /\ Suffix(masked, 4) = Suffix(c.api_key, 4)
                 /\ AllStars(masked, 1, n - 4)
                 /\ c.api_key # "" => masked # c.api_key
                 /\ \A j \in DOMAIN last.response :
                      \A d \in {x \in configs : x.id = last.response[j].id} :
                        (/\ Len(d.api_key) = n
                         /\ Suffix(d.api_key, 4) = Suffix(c.api_key, 4))
                          => last.response[j].api_key_masked = masked

----------------------------------------------------------------------------
(* Single fetches with every kind of response: feed_service.fetch_feed *)

\* parsed.feed of the documents fetched under SpecFetch
FetchParsedFeeds ==
    ParsedFeeds \cup
      { [title |-> "T2", description |-> "D2", subtitle |-> "S2", link |-> ""] }

\* The responses of the GET: the status codes with and without a body, and
\* 200 responses with both, one or none of the headers ETag and Last-Modified
FetchResponses ==
    {NetworkError, Status(304), Status(404), Status(500)}
      \cup { [kind |-> "http", status_code |-> 200, etag |-> h[1],
              last_modified |-> h[2], parsed |-> p, entries |-> <<EntryA>>]
               : h \in { <<NULL, NULL>>, <<"e1", "m1">>, <<"e2", "">> },
                 p \in {q \in FetchParsedFeeds : q.title # "T1"} }
      \cup { [kind |-> "http", status_code |-> 200, etag |-> "",
              last_modified |-> "m2",
              parsed |-> CHOOSE q \in FetchParsedFeeds : q.title = "T1",
              entries |-> << >>] }

\* The titles a user gives or takes away
TitleUpdateBodies == { [title |-> ""], [title |-> "U"] }

NextFetch ==
    \/ \E f \in FeedIds \cup MissingFeedIds, resp \in FetchResponses :
         fetch_feed(f, resp)
    \/ \E f \in FeedIds, data \in TitleUpdateBodies : update_feed(f, data)

SpecFetch == InitFeed /\ [][NextFetch]_vars

----------------------------------------------------------------------------
(* The response parser on its own: services/summary_service.py *)

\* Lines an LLM response is made of: the line as written, what it is (blank,
\* prose, or a bullet line: a marker followed by whitespace) and its text
\* without the marker and the surrounding whitespace
ResponseLines ==
    { [line |-> "",       kind |-> "blank",  body |-> ""],
      [line |-> "  ",     kind |-> "blank",  body |-> ""],
      [line |-> "Sum a.", kind |-> "prose",  body |-> "Sum a."],
      [line |-> " two ",  kind |-> "prose",  body |-> "two"],
      [line |-> "-x",     kind |-> "prose",  body |-> "-x"],
      [line |-> "3.x",    kind |-> "prose",  body |-> "3.x"],
      [line |-> "- A",    kind |-> "bullet", body |-> "A"],
      [line |-> " * B ",  kind |-> "bullet", body |-> "B"],
      [line |-> "1. C",   kind |-> "bullet", body |-> "C"],
      [line |-> "12) D",  kind |-> "bullet", body |-> "D"],
      [line |-> "- ",     kind |-> "bullet", body |-> ""] }

\* The longest response, in lines
MaxLines == 3

\* The response text: its lines separated by newlines
RECURSIVE RawOf(_)
RawOf(ls) ==
    IF ls = << >> THEN ""
    ELSE IF Len(ls) = 1 THEN ls[1].line
    ELSE ls[1].line \o "\n" \o RawOf(Tail(ls))

Responses == UNION { [1..n -> ResponseLines] : n \in 0..MaxLines }

\* A call of _parse_llm_summary with one response
InitParse ==
    /\ configs = {}
    /\ feeds = << >>
    /\ articles = {}
    /\ summaries = {}
    /\ digests = {}
    /\ categories = {}
    /\ tasks = SeededTasks
    /\ jobs = JobsAtStart(SeededTasks)
    /\ now = 1
    /\ run \in { [pc |-> "parse", lines |-> ls] : ls \in Responses }
    /\ calls = << >>
    /\ last = NoRequest

\* _parse_llm_summary applied to the response
parse_llm_summary ==
    /\ run.pc = "parse"
    /\ last' = [op |-> "parse", lines |-> run.lines, raw |-> RawOf(run.lines),
                result |-> _parse_llm_summary(RawOf(run.lines))]
    /\ run' = Idle
    /\ UNCHANGED <<tasks, jobs, categories, configs, feeds, articles, summaries, digests, now, calls>>

NextParse == parse_llm_summary

SpecParse == InitParse /\ [][NextParse]_vars

\* The texts of a sequence of lines
Bodies(ls) == [i \in 1..Len(ls) |-> ls[i].body]

IsBulletLine(l) == l.kind = "bullet"

IsProseLine(l) == l.kind = "prose"

\* The lines before the first bullet line
BeforeBullets(ls) ==
    LET at == {i \in 1..Len(ls) : IsBulletLine(ls[i])}
    IN  IF at = {} THEN ls
        ELSE SubSeq(ls, 1, (CHOOSE i \in at : \A j \in at : i <= j) - 1)

ProseOf(ls) == Bodies(SelectSeq(BeforeBullets(ls), IsProseLine))

HasText(l) == l.body # ""

PointsOf(ls) == Bodies(SelectSeq(SelectSeq(ls, IsBulletLine), HasText))

\* C22: for every raw response the parser returns as summary text the
\* non-blank, non-bullet lines before the first bullet line joined by single
\* spaces, and as key points the non-empty marker-stripped texts of all bullet
\* lines in order; non-bullet lines after the first bullet line appear in
\* neither; only when both are empty is the summary text the whole trimmed
\* response.
C22_ParserSplitsProseAndBullets ==
    last.op = "parse" =>
      /\ last.result.key_points = PointsOf(last.lines)
      /\ last.result.summary_text =
           IF ProseOf(last.lines) = << >> /\ PointsOf(last.lines) = << >>
             THEN StripText(last.raw)
             ELSE Join(ProseOf(last.lines))

----------------------------------------------------------------------------
(* The guid of an ingested entry: services/feed_service.py *)

\* Entries with and without id, link and title
GuidEntries ==
    { [id |-> i, link |-> l, title |-> t, published |-> 0, author |-> "",
       content |-> "", summary |-> ""] :
        i \in {"", "g1"}, l \in {"", "l1"}, t \in {"", "Foo"} }

GuidResponses == { Ok200(<<e>>) : e \in GuidEntries }

\* The subscribed feeds, by the URLs they were created with
GuidFeeds ==
    [f \in FeedIds |->
        [InitFeeds[f] EXCEPT !.url = IF f = 1 THEN "https://x/feed.xml"
                                              ELSE "https://y/rss"]]

InitGuid ==
    /\ configs = {}
    /\ feeds = GuidFeeds
    /\ articles = {}
    /\ summaries = {}
    /\ digests = {}
    /\ categories = {}
    /\ tasks = SeededTasks
    /\ jobs = JobsAtStart(SeededTasks)
    /\ now = 1
    /\ run = Idle
    /\ calls = << >>
    /\ last = NoRequest

NextGuid == \E f \in FeedIds, resp \in GuidResponses : fetch_feed(f, resp)

SpecGuid == InitGuid /\ [][NextGuid]_vars

C24_MetadataOfA200 ==
    [][ (last'.op = "fetch_feed" /\ last'.feed_id \in DOMAIN feeds /\ Is200(last'))
        => LET old == feeds[last'.feed_id]
               new == feeds'[last'.feed_id]
               p == last'.resp.parsed
           IN  /\ new.title = IF old.title = "" /\ p.title # "" THEN p.title
                              ELSE old.title
               /\ new.description = IF p.description # "" THEN p.description
                                    ELSE IF p.subtitle # "" THEN p.subtitle
                                    ELSE old.description
               /\ new.site_url = IF p.link # "" THEN p.link ELSE old.site_url ]_vars

C24_Witness ==
    /\ last.op = "fetch_feed"
    /\ last.feed_id \in DOMAIN feeds
    /\ Is200(last)
    /\ last.resp.parsed.title = "T2"
    /\ last.resp.parsed.link = ""
    /\ feeds[last.feed_id].title = "U"
    /\ feeds[last.feed_id].description = "D2"
    /\ feeds[last.feed_id].site_url = "L1"

----------------------------------------------------------------------------
(* The requests of the providers: llm/anthropic_provider.py,
   llm/gemini_provider.py *)

\* The longest message list
MaxMessages == 3

Roles == {"system", "user", "assistant"}

Texts == {"", "a", "b"}

Messages == [role : Roles, content : Texts]

MessageLists == UNION { [1..n -> Messages] : n \in 0..MaxMessages }

\* The loop of AnthropicProvider.chat over the messages
RECURSIVE AnthropicLoop(_, _)
AnthropicLoop(acc, messages) ==
    IF messages = << >> THEN acc
    ELSE LET msg == Head(messages)
         IN  AnthropicLoop(
               IF msg.role = "system"
                 THEN [acc EXCEPT !.system_text = msg.content]
                 ELSE [acc EXCEPT !.api_messages =
                          Append(@, [role |-> msg.role, content |-> msg.content])],
               Tail(messages))

\* The payload AnthropicProvider.chat posts; system NULL is a payload without
\* the field
AnthropicPayload(messages) ==
    LET acc == AnthropicLoop([system_text |-> NULL, api_messages |-> << >>], messages)
    IN  [messages |-> IF acc.api_messages = << >>
                        THEN <<[role |-> "user", content |-> "hi"]>>
                        ELSE acc.api_messages,
         system |-> IF Truthy(acc.system_text) THEN acc.system_text ELSE NULL]

\* sep.join(parts)
RECURSIVE JoinWith(_, _)
JoinWith(parts, sep) ==
    IF parts = << >> THEN ""
    ELSE IF Len(parts) = 1 THEN parts[1]
    ELSE parts[1] \o sep \o JoinWith(Tail(parts), sep)

\* The loop of _to_gemini_contents over the messages
RECURSIVE GeminiLoop(_, _)
GeminiLoop(acc, messages) ==
    IF messages = << >> THEN acc
    ELSE LET msg == Head(messages)
             text == IF acc.system_parts # << >>
                       THEN JoinWith(acc.system_parts, "\n\n") \o "\n\n" \o msg.content
                       ELSE msg.content
         IN  GeminiLoop(
               IF msg.role = "system"
                 THEN [acc EXCEPT !.system_parts = Append(@, msg.content)]
               ELSE IF msg.role = "assistant"
                 THEN [acc EXCEPT !.contents =
                          Append(@, [role |-> "model", text |-> msg.content])]
               ELSE [system_parts |-> << >>,
                     contents |-> Append(acc.contents, [role |-> "user", text |-> text])],
               Tail(messages))

\* _to_gemini_contents
_to_gemini_contents(messages) ==
    GeminiLoop([system_parts |-> << >>, contents |-> << >>], messages).contents

\* A call of chat with one message list
InitChat ==
    /\ configs = {}
    /\ feeds = << >>
    /\ articles = {}
    /\ summaries = {}
    /\ digests = {}
    /\ categories = {}
    /\ tasks = SeededTasks
    /\ jobs = JobsAtStart(SeededTasks)
    /\ now = 1
    /\ run \in { [pc |-> "chat", messages |-> m] : m \in MessageLists }
    /\ calls = << >>
    /\ last = NoRequest

\* AnthropicProvider.chat up to the request it sends
anthropic_chat ==
    /\ run.pc = "chat"
    /\ last' = [op |-> "anthropic_chat", messages |-> run.messages,
                payload |-> AnthropicPayload(run.messages)]
    /\ run' = Idle
    /\ UNCHANGED <<tasks, jobs, categories, configs, feeds, articles, summaries, digests, now, calls>>

\* GeminiProvider.chat up to the request it sends
gemini_chat ==
    /\ run.pc = "chat"
    /\ last' = [op |-> "gemini_chat", messages |-> run.messages,
                contents |-> _to_gemini_contents(run.messages)]
    /\ run' = Idle
    /\ UNCHANGED <<tasks, jobs, categories, configs, feeds, articles, summaries, digests, now, calls>>

NextChat ==
    \/ anthropic_chat
    \/ gemini_chat

SpecChat == InitChat /\ [][NextChat]_vars

IsSystemMessage(m) == m.role = "system"

NotSystemMessage(m) == m.role # "system"

\* Does the text s contain the text t
Contains(s, t) ==
    \E i \in 1..(Len(s) + 1) : i + Len(t) - 1 <= Len(s) /\ SubSeq(s, i, i + Len(t) - 1) = t

\* C25: for every message sequence the request of the Anthropic provider has
\* no system-role message in its messages array, carries the text of every
\* system message of the input in the top-level system field, keeps the
\* non-system messages in their order with their roles and texts, and has a
\* non-empty messages array: a single user message with text hi when the
\* input has no non-system message.
C25_AnthropicRequest ==
    last.op = "anthropic_chat" =>
      LET system == IF last.payload.system = NULL THEN "" ELSE last.payload.system
          others == SelectSeq(last.messages, NotSystemMessage)
      IN  /\ \A i \in DOMAIN last.payload.messages :
                last.payload.messages[i].role # "system"
          /\ \A i \in DOMAIN last.messages :
                IsSystemMessage(last.messages[i])
                  => Contains(system, last.messages[i].content)
          /\ last.payload.messages # << >>
          /\ last.payload.messages =
               IF others = << >> THEN <<[role |-> "user", content |-> "hi"]>>
               ELSE others

\* The system messages at the start of a message list
RECURSIVE LeadingSystem(_)
LeadingSystem(messages) ==
    IF messages # << >> /\ IsSystemMessage(Head(messages))
      THEN <<Head(messages).content>> \o LeadingSystem(Tail(messages))
      ELSE << >>

\* Is the message at index i the first of the list with a role other than
\* system and assistant
FirstUser(messages, i) ==
    /\ messages[i].role \notin {"system", "assistant"}
    /\ \A j \in 1..(i - 1) : messages[j].role \in {"system", "assistant"}

\* The indexes of the messages that are no system messages, in order
RECURSIVE TurnIndexes(_, _)
TurnIndexes(messages, i) ==
    IF i > Len(messages) THEN << >>
    ELSE IF IsSystemMessage(messages[i]) THEN TurnIndexes(messages, i + 1)
    ELSE <<i>> \o TurnIndexes(messages, i + 1)

\* C26: for every message sequence the contents of the Gemini provider
\* contain only the roles user and model: each assistant message becomes a
\* model turn with the same text, the texts of all leading system messages
\* are concatenated in order and prepended to the text of the first user
\* message, and all other user and assistant messages keep their order and
\* text.
C26_GeminiContents ==
    last.op = "gemini_chat" =>
      LET messages == last.messages
          contents == last.contents
          turns == TurnIndexes(messages, 1)
          leading == LeadingSystem(messages)
      IN  /\ \A k \in DOMAIN contents : contents[k].role \in {"user", "model"}
          /\ Len(contents) = Len(turns)
          /\ \A k \in DOMAIN turns :
                LET msg == messages[turns[k]]
                IN  /\ contents[k].role =
                         IF msg.role = "assistant" THEN "model" ELSE "user"
                    /\ contents[k].text =
                         IF FirstUser(messages, turns[k]) /\ leading # << >>
                           THEN JoinWith(leading, "\n\n") \o "\n\n" \o msg.content
                           ELSE msg.content

\* Did the response carry the header k with a value
Carried(l, k) == Is200(l) /\ l.resp[k] # NULL /\ l.resp[k] # ""

\* C27: across any sequence of fetches of one feed the If-None-Match
\* (If-Modified-Since) value a fetch sends is the ETag (Last-Modified) of the
\* most recent earlier 200 response that carried the header, and no such
\* header is sent when there was none; a 304, another non-200 status, a
\* network failure and a 200 without the header leave the stored token
\* unchanged.
C27_ConditionalTokens ==
    [][ (last'.op = "fetch_feed" /\ last'.feed_id \in DOMAIN feeds)
        => LET f == last'.feed_id
               sent == [etag |-> last'.requests[1].if_none_match,
                        last_modified |-> last'.requests[1].if_modified_since]
           IN  /\ Len(last'.requests) = 1
               /\ \A k \in {"etag", "last_modified"} :
                    /\ sent[k] = feeds[f][k]
                    /\ feeds[f].last_fetched_at = Never => sent[k] = NULL
                    /\ (last.op = "fetch_feed" /\ last.feed_id = f)
                         => sent[k] =
                              IF Carried(last, k) THEN last.resp[k]
                              ELSE IF k = "etag" THEN last.requests[1].if_none_match
                              ELSE last.requests[1].if_modified_since
                    /\ feeds'[f][k] =
                         IF Carried(last', k) THEN last'.resp[k] ELSE feeds[f][k] ]_vars

C27_Witness ==
    /\ last.op = "fetch_feed"
    /\ last.feed_id \in DOMAIN feeds
    /\ last.requests = <<[if_none_match |-> "e1", if_modified_since |-> "m1"]>>
    /\ Is200(last)
    /\ last.resp.etag = "e2"
    /\ last.resp.last_modified = ""
    /\ feeds[last.feed_id].etag = "e2"
    /\ feeds[last.feed_id].last_modified = "m1"

\* C29: when the HTTP request of a fetch fails at network level, the
\* invocation issues no second request, reports the failure to its caller and
\* leaves the stored state unchanged: last_fetched_at, ETag, Last-Modified and
\* the feed metadata keep their values and no article is inserted.
C29_NetworkFailure ==
    [][ (last'.op = "fetch_feed" /\ last'.feed_id \in DOMAIN feeds
           /\ last'.resp.kind = "error")
        => /\ Len(last'.requests) = 1
           /\ last'.result.raised = "RuntimeError"
           /\ last'.http_status = 502
           /\ last'.result.new_articles = 0
           /\ \A k \in {"last_fetched_at", "etag", "last_modified", "title",
                        "description", "site_url"} :
                feeds'[last'.feed_id][k] = feeds[last'.feed_id][k]
           /\ feeds' = feeds
           /\ articles' = articles ]_vars

C29_Witness ==
    /\ last.op = "fetch_feed"
    /\ last.feed_id \in DOMAIN feeds
    /\ last.resp.kind = "error"
    /\ last.result.raised = "RuntimeError"
    /\ last.requests = <<[if_none_match |-> "e1", if_modified_since |-> "m1"]>>
    /\ feeds[last.feed_id].last_fetched_at = now - 2
    /\ feeds[last.feed_id].etag = "e1"
    /\ feeds[last.feed_id].description = "D2"
    /\ ArticlesOf(articles, last.feed_id) # {}

----------------------------------------------------------------------------
(* The transaction of a run over all feeds: services/feed_service.py *)

\* A 200 response whose first entry is inserted and whose second entry's
\* flush raises an error that is no IntegrityError
BrokenIngest ==
    [kind |-> "broken", status_code |-> 200, etag |-> "e1", last_modified |-> "m1",
     parsed |-> CHOOSE p \in ParsedFeeds : p.title # "",
     entries |-> <<EntryA, EntryC>>, raises_at |-> 2]

TxResponses == {NetworkError, Status(304), Ok200(<<EntryA>>), BrokenIngest}

NextFetchTx ==
    \/ \E f \in FeedIds, resp \in TxResponses : fetch_feed(f, resp)
    \/ fetch_all_start
    \/ \E resp \in TxResponses : fetch_all_step(resp)

SpecFetchTx == InitFeed /\ [][NextFetchTx]_vars

\* C28: the changes of one feed's fetch are persisted all together or not at
\* all, also inside fetch_all_active_feeds: when a feed's fetch fails after
\* staging changes, none of them is made durable by the commit of a feed
\* fetched later in the same run, so a feed listed in errors has the same
\* stored state and articles as before the run.
C28_FailedFeedKeepsItsState ==
    [][ (run.pc = "loop" /\ last'.op = "fetch_all_active_feeds")
        => \A k \in DOMAIN last'.report.errors :
             LET g == last'.report.errors[k].feed_id
             IN  /\ feeds'[g] = run.before.feeds[g]
                 /\ ArticlesOf(articles', g) = ArticlesOf(run.before.articles, g) ]_vars

----------------------------------------------------------------------------
(* Scheduled tasks: routers/tasks.py, services/scheduler_service.py *)

\* The table scheduled_tasks when the process starts: empty on a fresh
\* installation, or the rows left by an earlier run of the process
TasksAtStart ==
    { {},
      {IF t.task_type = "fetch_feeds" THEN [t EXCEPT !.is_enabled = FALSE] ELSE t :
         t \in SeededTasks},
      SeededTasks \cup {[id |-> 5, task_type |-> "custom",
                         cron_expression |-> "0 8 * * *", is_enabled |-> TRUE]} }

InitTask ==
    /\ configs = {}
    /\ feeds = << >>
    /\ articles = {}
    /\ summaries = {}
    /\ digests = {}
    /\ categories = {}
    /\ tasks \in TasksAtStart
    /\ jobs = {}
    /\ now = 1
    /\ run = [pc |-> "starting"]
    /\ calls = << >>
    /\ last = NoRequest

\* start_scheduler in the lifespan of the app
start_scheduler ==
    /\ run.pc = "starting"
    /\ tasks' = seed_default_tasks(tasks)
    /\ jobs' = JobsAtStart(tasks')
    /\ run' = Idle
    /\ last' = [op |-> "start_scheduler", task_id |-> 0, status |-> 200]
    /\ UNCHANGED <<configs, feeds, articles, summaries, digests, categories, now, calls>>

TaskCreateBodies ==
    [task_type : {"fetch_feeds", "custom"}, cron_expression : {"0 8 * * *", "bad"},
     is_enabled : BOOLEAN]

\* POST /api/v1/tasks/
create_task(data) ==
    /\ run.pc = "idle"
    /\ IF \E t \in tasks : t.task_type = data.task_type
         THEN /\ last' = [op |-> "create_task", task_id |-> 0, status |-> 400]
              /\ UNCHANGED <<tasks, jobs>>
         ELSE LET task == [id |-> NextId(tasks), task_type |-> data.task_type,
                           cron_expression |-> data.cron_expression,
                           is_enabled |-> data.is_enabled]
                  r == IF task.is_enabled
                         THEN reschedule_task(jobs, task.task_type,
                                              task.cron_expression, TRUE)
                         ELSE [jobs |-> jobs, raised |-> ""]
              IN  /\ tasks' = tasks \cup {task}
                  /\ jobs' = r.jobs
                  /\ last' = [op |-> "create_task", task_id |-> task.id,
                              status |-> IF r.raised = "" THEN 200 ELSE 500]
    /\ UNCHANGED <<configs, feeds, articles, summaries, digests, categories, now, run,
                   calls>>

TaskUpdateBodies ==
    { [is_enabled |-> FALSE], [is_enabled |-> TRUE],
      [cron_expression |-> "0 8 * * *"], [cron_expression |-> "bad"],
      [cron_expression |-> "0 25 * * *"],
      [cron_expression |-> "*/15 6 * * *", is_enabled |-> TRUE] }

UpdatedTaskIds == {1, 2, 5, 9}

\* PUT /api/v1/tasks/{task_id}
update_task(task_id, data) ==
    /\ run.pc = "idle"
    /\ IF \A t \in tasks : t.id # task_id
         THEN /\ last' = [op |-> "update_task", task_id |-> task_id, status |-> 404]
              /\ UNCHANGED <<tasks, jobs>>
         ELSE LET old == CHOOSE t \in tasks : t.id = task_id
                  task == ApplyUpdates(old, data)
                  r == reschedule_task(jobs, task.task_type, task.cron_expression,
                                       task.is_enabled)
              IN  /\ tasks' = (tasks \ {old}) \cup {task}
                  /\ jobs' = r.jobs
                  /\ last' = [op |-> "update_task", task_id |-> task_id,
                              status |-> IF r.raised = "" THEN 200 ELSE 500]
    /\ UNCHANGED <<configs, feeds, articles, summaries, digests, categories, now, run,
                   calls>>

NextTask ==
    \/ start_scheduler
    \/ \E data \in TaskCreateBodies : create_task(data)
    \/ \E task_id \in UpdatedTaskIds, data \in TaskUpdateBodies : update_task(task_id, data)

SpecTask == InitTask /\ [][NextTask]_vars

\* Should the scheduler hold a job for the task
Scheduled(t) == t.is_enabled /\ t.task_type \in TASK_HANDLERS

JobsOf(js, t) == {j \in js : j.id = "task_" \o t.task_type}

\* C30: after the scheduler's start and any sequence of task create and
\* update requests the scheduler holds a job task_<type> exactly for the
\* stored tasks that are enabled and whose type has a registered handler, at
\* most one per task type: disabling a task removes its job, re-enabling it
\* adds it again, and changing its cron expression replaces the job.
C30_JobsFollowTasks ==
    [][ run'.pc = "idle"
        => /\ \A t \in tasks' : Scheduled(t) <=> JobsOf(jobs', t) # {}
           /\ \A j \in jobs' : \E t \in tasks' : Scheduled(t) /\ j \in JobsOf(jobs', t)
           /\ \A t \in tasks' : Cardinality(JobsOf(jobs', t)) <= 1
           /\ \A t \in tasks : \A u \in tasks' :
                (t.id = u.id /\ t.task_type \in TASK_HANDLERS)
                  => /\ (t.is_enabled /\ ~u.is_enabled) => JobsOf(jobs', u) = {}
                     /\ (~t.is_enabled /\ u.is_enabled) => JobsOf(jobs', u) # {}
                     /\ (u.is_enabled /\ t.cron_expression # u.cron_expression)
                          => \E j \in jobs' :
                               /\ JobsOf(jobs', u) = {j}
                               /\ j.trigger = SplitWords(u.cron_expression, 1) ]_vars

=============================================================================
